---- MODULE Spec2Model ----
(***************************************************************************)
(* A model of pyvdrm's ASI2 rule evaluator (pyvdrm/asi2.py, pyvdrm/drm.py) *)
(* and of the mutation value types it evaluates against (pyvdrm/vcf.py).   *)
(*                                                                         *)
(* A rule is compiled once into a tree of callable nodes (dtree); a call   *)
(* of the rule walks the tree against an environment, a collection of      *)
(* MutationSets, and returns a Score, or raises.  Python values are        *)
(* modelled by what the code can observe of them: a bool is an int with a  *)
(* mark (False + 20 is 20, `x is False` holds of the bool only), a set of  *)
(* Mutations compares its members with Mutation.__eq__, which raises       *)
(* ValueError on a wild type mismatch.                                     *)
(***************************************************************************)
EXTENDS Integers, Sequences, FiniteSets, TLC

VARIABLES rule, dtree, env, outcome, pc, variant_calls, default_flags,
          given, returned

vars == <<rule, dtree, env, outcome, pc, variant_calls, default_flags,
          given, returned>>

----------------------------------------------------------------------------
(* Bounds of the model *)

\* positions 1..NumPos can be sequenced in the generic environments
NumPos == 2
\* a generic environment holds at most MaxEnv MutationSets
MaxEnv == 2
\* an environment of the literal scenarios holds at most MaxSample
MaxSample == 6
\* a generic aligned reference has at most RefLen positions
RefLen == 2
\* a MutationSet is constructed from at most MaxMutations Mutations
MaxMutations == 3
\* an evidence list of an operand holds at most MaxEvidence elements
MaxEvidence == 1
\* a list of an HCVR2 rule holds at most MaxItems items
MaxItems == 2

Positions == 1..NumPos
\* wildtype None
NoWt == "-"
Wildtypes == {"Q", "R"}
Variants == {"A", "B"}

----------------------------------------------------------------------------
(* Python values: bool is a subclass of int *)

PyBool(b) == [isbool |-> TRUE, n |-> IF b THEN 1 ELSE 0]
PyInt(i) == [isbool |-> FALSE, n |-> i]
PyTrue == PyBool(TRUE)
PyFalse == PyBool(FALSE)
\* bool(x)
Truthy(x) == x.n # 0
\* x is False
IsFalse(x) == x.isbool /\ x.n = 0
\* not x
PyNot(x) == PyBool(~Truthy(x))
\* x or y
PyOr(x, y) == IF Truthy(x) THEN x ELSE y
\* x + y: the sum of two bools is an int
PyAdd(x, y) == PyInt(x.n + y.n)

----------------------------------------------------------------------------
(* pyvdrm/vcf.py: Mutation and MutationSet *)

Mutation(wildtype, pos, variant) ==
    [wildtype |-> wildtype, pos |-> pos, variant |-> variant]

\* MutationSet(text): wildtype (optional), position and variants
MutationSet(wildtype, pos, variants) ==
    [wildtype |-> wildtype,
     pos |-> pos,
     mutations |-> {Mutation(wildtype, pos, v) : v \in variants}]

\* Mutation.__hash__: hash((pos, variant))
MutationHash(m) == <<m.pos, m.variant>>

\* faulty variant: a wild type mismatch answers False
MutationEqNoRaise(self, other) ==
    IF self.pos # other.pos THEN "False"
    ELSE IF self.wildtype # NoWt /\ other.wildtype # NoWt
            /\ self.wildtype # other.wildtype THEN "False"
    ELSE IF <<self.pos, self.variant>> = <<other.pos, other.variant>> THEN "True"
    ELSE "False"

\* Mutation.__eq__: "True", "False", or "ValueError" on a wild type mismatch
MutationEq(self, other) ==
    IF self.pos # other.pos THEN "False"
    ELSE IF self.wildtype # NoWt /\ other.wildtype # NoWt
            /\ self.wildtype # other.wildtype THEN "ValueError"
    ELSE IF <<self.pos, self.variant>> = <<other.pos, other.variant>> THEN "True"
    ELSE "False"

\* A set looks a key up by hash and compares the members of equal hash with
\* __eq__: the lookup of any member of a among those of b raises
SetOpRaises(a, b) ==
    \E x \in a, y \in b :
        MutationHash(x) = MutationHash(y) /\ MutationEq(y, x) = "ValueError"

\* key in s
SetContains(s, key) ==
    \E y \in s : MutationHash(y) = MutationHash(key) /\ MutationEq(y, key) = "True"

\* a & b: the members of the smaller set (of b when the sizes are equal) that
\* are found in the other one
SetAnd(a, b) ==
    IF Cardinality(b) > Cardinality(a)
    THEN {x \in a : SetContains(b, x)}
    ELSE {x \in b : SetContains(a, x)}

\* a | b: a copy of a, to which the members of b not found in it are added
SetOr(a, b) == a \cup {y \in b : ~SetContains(a, y)}

\* pos=None
NoPos == 0

\* frozenset(mutations): the Mutations are inserted in the order of the
\* sequence; one that hashes as a member is compared with it (member == new)
\* and is dropped when equal, and the comparison may raise ValueError
RECURSIVE Frozenset(_, _, _)
Frozenset(mutations, i, members) ==
    IF i > Len(mutations) THEN [raised |-> FALSE, set |-> members]
    ELSE LET alike == {y \in members :
                          MutationHash(y) = MutationHash(mutations[i])}
         IN  IF \E y \in alike : MutationEq(y, mutations[i]) = "ValueError"
             THEN [raised |-> TRUE, set |-> {}]
             ELSE IF \E y \in alike : MutationEq(y, mutations[i]) = "True"
             THEN Frozenset(mutations, i + 1, members)
             ELSE Frozenset(mutations, i + 1, members \cup {mutations[i]})

\* what a constructor gives: the object, or the exception raised
Constructed(kind, value) == [kind |-> kind, value |-> value]

\* MutationSet(wildtype=..., pos=..., variants=..., mutations=...): variants
\* is a set of letters (empty when not given), mutations a sequence
MutationSetInit(wildtype, pos, variants, mutations) ==
    IF variants # {}
    THEN IF pos = NoPos THEN Constructed("TypeError", {})
         ELSE Constructed("MutationSet", MutationSet(wildtype, pos, variants))
    ELSE LET frozen == Frozenset(mutations, 1, {})
             positions == {m.pos : m \in frozen.set}
                              \cup (IF pos # NoPos THEN {pos} ELSE {})
             wildtypes == ({m.wildtype : m \in frozen.set} \cup {wildtype})
                              \ {NoWt}
         IN  IF frozen.raised THEN Constructed("ValueError", {})
             ELSE IF Cardinality(positions) > 1
             THEN Constructed("ValueError", {})
             ELSE IF wildtypes = {} /\ frozen.set = {}
             THEN Constructed("ValueError", {})
             ELSE IF positions = {} THEN Constructed("ValueError", {})
             ELSE IF Cardinality(wildtypes) > 1
             THEN Constructed("ValueError", {})
             ELSE Constructed("MutationSet",
                              [wildtype |-> IF wildtypes # {}
                                            THEN CHOOSE w \in wildtypes : TRUE
                                            ELSE NoWt,
                               pos |-> CHOOSE p \in positions : TRUE,
                               mutations |-> frozen.set])

\* VariantCalls: no object yet, an object, or the exception of its constructor
NoVariantCalls == [kind |-> "None", reference |-> <<>>, mutation_sets |-> {}]
VariantCalls(reference, mutation_sets) ==
    [kind |-> "VariantCalls", reference |-> reference,
     mutation_sets |-> mutation_sets]
VariantCallsRaises ==
    [kind |-> "ValueError", reference |-> <<>>, mutation_sets |-> {}]

\* VariantCalls(reference=..., sample=...): reference is a string, sample a
\* string or a list of strings, here a sequence of sets of letters; the
\* comprehension keeps the positions where the sample's string differs from
\* the reference's letter
VariantCallsInit(reference, sample) ==
    IF Len(reference) # Len(sample) THEN VariantCallsRaises
    ELSE VariantCalls(reference,
                      {MutationSet(reference[i], i, sample[i]) :
                          i \in {j \in 1..Len(reference) :
                                    {reference[j]} # sample[j]}})

----------------------------------------------------------------------------
(* Outcomes of a call: a Score, None, or a raised exception *)

Score(score, residues) ==
    [kind |-> "Score", score |-> score, residues |-> residues, pos |-> 0]
None == [kind |-> "None", score |-> PyFalse, residues |-> {}, pos |-> 0]
Raise(exception, pos) ==
    [kind |-> exception, score |-> PyFalse, residues |-> {}, pos |-> pos]
MissingPositionError(pos) == Raise("MissingPositionError", pos)
ValueError == Raise("ValueError", 0)
NotCalled == Raise("NotCalled", 0)

IsScore(o) == o.kind = "Score"
Raises(o) == o.kind \notin {"Score", "None"}

----------------------------------------------------------------------------
(* Expression nodes: what the parse actions build from the matched tokens *)

NoMutations == [wildtype |-> NoWt, pos |-> 0, mutations |-> {}]

Node(kind, op, num, mutations, children) ==
    [kind |-> kind, op |-> op, num |-> num,
     mutations |-> mutations, children |-> children]

\* AsiMutations.__init__: self.mutations = MutationSet(''.join(args))
AsiMutations(wildtype, pos, variants) ==
    Node("AsiMutations", "", 0, MutationSet(wildtype, pos, variants), <<>>)
\* NOT mutation
Negate(child) == Node("Negate", "", 0, NoMutations, <<child>>)
\* infixNotation groups the operands of a chain of one operator in one list
AndExpr(operands) == Node("AndExpr", "", 0, NoMutations, operands)
OrExpr(operands) == Node("OrExpr", "", 0, NoMutations, operands)
\* quantifier + integer
EqualityExpr(operation, limit) ==
    Node("EqualityExpr", operation, limit, NoMutations, <<>>)
\* SELECT select_quantifier FROM residue_list: children = [operation, *rest]
SelectFrom(operation, rest) ==
    Node("SelectFrom", "", 0, NoMutations, <<operation>> \o rest)
\* booleancondition => [-] integer
ScoreExpr(operation, minus, score) ==
    Node("ScoreExpr", minus, score, NoMutations, <<operation>>)
\* [MAX] ( scoreitem, ... ): op is "MAX" when the list starts with that token
ScoreList(op, items) == Node("ScoreList", op, 0, NoMutations, items)
\* SCORE FROM ( scorelist, ... )
AsiScoreCond(lists) == Node("ScoreCond", "", 0, NoMutations, lists)
\* construction raised AsiParseError: there is no rule object
AsiParseError == Node("AsiParseError", "", 0, NoMutations, <<>>)
\* pyparsing's ParseException, raised by parseString
ParseException == Node("ParseException", "", 0, NoMutations, <<>>)

\* a rule text: the statement the grammar matches at its start (none when
\* no statement starts the text) and the text after it, which continues no
\* statement
NoStatement == <<>>
Text(statement, rest) == Node("Text", rest, 0, NoMutations, statement)

----------------------------------------------------------------------------
(* pyvdrm/asi2.py: the nodes' __call__ *)

RECURSIVE Call(_, _)

\* [f(mutations) for f in children]
Scores(children, mutations) ==
    [i \in 1..Len(children) |-> Call(children[i], mutations)]

\* the comprehension raises what its first raising call raises
HasRaise(scores) == \E i \in 1..Len(scores) : Raises(scores[i])
FirstRaise(scores) ==
    scores[CHOOSE i \in 1..Len(scores) :
               Raises(scores[i]) /\ \A j \in 1..(i - 1) : ~Raises(scores[j])]

\* reduce(lambda x, y: x | y, sets) from the i-th set on, acc holding the
\* union so far; "ValueError" when a union raises
RECURSIVE ReduceOr(_, _, _)
ReduceOr(sets, i, acc) ==
    IF i > Len(sets) THEN [raised |-> FALSE, set |-> acc]
    ELSE IF SetOpRaises(acc, sets[i]) THEN [raised |-> TRUE, set |-> {}]
    ELSE ReduceOr(sets, i + 1, SetOr(acc, sets[i]))

\* AsiMutations.__call__, from the i-th mutation_set of env on
RECURSIVE AsiMutationsLoop(_, _, _, _)
AsiMutationsLoop(self, env_, i, is_found) ==
    IF i > Len(env_)
    THEN IF ~is_found
         THEN MissingPositionError(self.mutations.pos)
         ELSE Score(PyFalse, {})
    ELSE IF SetOpRaises(self.mutations.mutations, env_[i].mutations)
         THEN ValueError
    ELSE IF Cardinality(SetAnd(self.mutations.mutations, env_[i].mutations)) > 0
         THEN Score(PyTrue, SetAnd(self.mutations.mutations, env_[i].mutations))
    ELSE AsiMutationsLoop(self, env_, i + 1,
                          is_found \/ env_[i].pos = self.mutations.pos)

\* faulty variant: the residues of a match are the node's whole variant set
AsiMutationsCallWholeSet(self, env_) ==
    LET score == AsiMutationsLoop(self, env_, 1, FALSE)
    IN  IF IsScore(score) /\ Truthy(score.score)
        THEN Score(PyTrue, self.mutations.mutations)
        ELSE score

\* faulty variant: a position with no entry is a residue that does not match
AsiMutationsCallAbsentFalse(self, env_) ==
    LET score == AsiMutationsLoop(self, env_, 1, FALSE)
    IN  IF score.kind = "MissingPositionError" THEN Score(PyFalse, {}) ELSE score

\* faulty variant: the loop ends after the first MutationSet
AsiMutationsCallFirstSet(self, env_) ==
    AsiMutationsLoop(self, IF Len(env_) = 0 THEN env_ ELSE <<env_[1]>>,
                     1, FALSE)

AsiMutationsCall(self, env_) == AsiMutationsLoop(self, env_, 1, FALSE)

\* faulty variant: the negation drops the residues of its child
NegateCallNoResidues(self, mutations) ==
    LET child_score == Call(self.children[1], mutations)
    IN  IF Raises(child_score) THEN child_score
        ELSE Score(PyNot(child_score.score), {})

\* Negate.__call__
NegateCall(self, mutations) ==
    LET child_score == Call(self.children[1], mutations)
    IN  IF Raises(child_score) THEN child_score
        ELSE IF child_score = None THEN Score(PyTrue, {})
        ELSE Score(PyNot(child_score.score), child_score.residues)

\* the loop of AndExpr.__call__ from the i-th score on
RECURSIVE AndExprLoop(_, _, _)
AndExprLoop(scores, i, residues) ==
    IF i > Len(scores) THEN Score(PyTrue, residues)
    ELSE IF ~Truthy(scores[i].score) THEN Score(PyFalse, {})
    ELSE IF SetOpRaises(residues, scores[i].residues) THEN ValueError
    ELSE AndExprLoop(scores, i + 1, SetOr(residues, scores[i].residues))

\* faulty variant: the loop keeps the residues of the operand it looks at only
RECURSIVE AndExprLoopLastResidues(_, _, _)
AndExprLoopLastResidues(scores, i, residues) ==
    IF i > Len(scores) THEN Score(PyTrue, residues)
    ELSE IF ~Truthy(scores[i].score) THEN Score(PyFalse, {})
    ELSE AndExprLoopLastResidues(scores, i + 1, scores[i].residues)

AndExprCallLastResidues(self, mutations) ==
    LET called == Scores(self.children, mutations)
        scores == [i \in 1..Len(called) |->
                      IF called[i] = None THEN Score(PyFalse, {}) ELSE called[i]]
    IN  IF HasRaise(called) THEN FirstRaise(called)
        ELSE AndExprLoopLastResidues(scores, 1, {})

\* faulty variant: the operands are called one by one and the first false one ends
\* the conjunction, the operands after it are not called
RECURSIVE AndExprShortCircuit(_, _, _, _)
AndExprShortCircuit(self, mutations, i, residues) ==
    IF i > Len(self.children) THEN Score(PyTrue, residues)
    ELSE LET s == Call(self.children[i], mutations)
         IN  IF Raises(s) THEN s
             ELSE IF ~Truthy(s.score) THEN Score(PyFalse, {})
             ELSE IF SetOpRaises(residues, s.residues) THEN ValueError
             ELSE AndExprShortCircuit(self, mutations, i + 1,
                                      SetOr(residues, s.residues))
AndExprCallShortCircuit(self, mutations) ==
    AndExprShortCircuit(self, mutations, 1, {})

\* faulty variant: an operand whose position is missing counts as false
AndExprCallMaskMissing(self, mutations) ==
    LET called == Scores(self.children, mutations)
        scores == [i \in 1..Len(called) |->
                      IF called[i] = None \/ called[i].kind = "MissingPositionError"
                      THEN Score(PyFalse, {}) ELSE called[i]]
    IN  IF HasRaise(scores) THEN FirstRaise(scores)
        ELSE AndExprLoop(scores, 1, {})

\* faulty variant: the loop starts at the second operand
AndExprCallSkipFirst(self, mutations) ==
    LET called == Scores(self.children, mutations)
    IN  IF HasRaise(called) THEN FirstRaise(called)
        ELSE AndExprLoop(called, 2, {})

\* AndExpr.__call__: self.children[0] is the list of operands
AndExprCall(self, mutations) ==
    LET called == Scores(self.children, mutations)
        scores == [i \in 1..Len(called) |->
                      IF called[i] = None THEN Score(PyFalse, {}) ELSE called[i]]
    IN  IF HasRaise(called) THEN FirstRaise(called)
        ELSE IF Len(scores) = 0 THEN ValueError
        ELSE AndExprLoop(scores, 1, {})

\* faulty variant: the residues are those of the operand that decides the result
OrExprCallWinnerResidues(self, mutations) ==
    LET called == Scores(self.children, mutations)
    IN  IF HasRaise(called) THEN FirstRaise(called)
        ELSE IF Truthy(called[1].score) THEN called[1]
        ELSE called[2]

\* OrExpr.__call__
OrExprCall(self, mutations) ==
    LET called == Scores(self.children, mutations)
        score1 == IF called[1] = None THEN Score(PyFalse, {}) ELSE called[1]
        score2 == IF called[2] = None THEN Score(PyFalse, {}) ELSE called[2]
    IN  IF HasRaise(called) THEN FirstRaise(called)
        ELSE IF SetOpRaises(score1.residues, score2.residues) THEN ValueError
        ELSE Score(PyOr(score1.score, score2.score),
                   SetOr(score1.residues, score2.residues))

\* faulty variant: ATLEAST n is read as more than n
EqualityExprCallStrict(self, x) ==
    IF self.op = "ATLEAST" THEN Score(PyBool(x > self.num), {})
    ELSE IF self.op = "EXACTLY" THEN Score(PyBool(x = self.num), {})
    ELSE Raise("NotImplementedError", 0)

\* EqualityExpr.__call__(x): a bool, or NotImplementedError
EqualityExprCall(self, x) ==
    IF self.op = "ATLEAST" THEN Score(PyBool(x >= self.num), {})
    ELSE IF self.op = "EXACTLY" THEN Score(PyBool(x = self.num), {})
    ELSE IF self.op = "NOMORETHAN" THEN Score(PyBool(x <= self.num), {})
    ELSE Raise("NotImplementedError", 0)

\* operation(passing), the quantifier of a SELECT: an EqualityExpr returns
\* a bool; the AndExpr or OrExpr of a compound quantifier calls its
\* operands, which return bools or raise, and then reads .score of a bool
RECURSIVE QuantifierCall(_, _)
QuantifierCall(operation, x) ==
    IF operation.kind = "EqualityExpr" THEN EqualityExprCall(operation, x)
    ELSE LET called == [i \in 1..Len(operation.children) |->
                           QuantifierCall(operation.children[i], x)]
         IN  IF HasRaise(called) THEN FirstRaise(called)
             ELSE Raise("AttributeError", 0)

\* sum(bool(score.score) for score in scored)
RECURSIVE Passing(_, _)
Passing(scored, i) ==
    IF i > Len(scored) THEN 0
    ELSE (IF Truthy(scored[i].score) THEN 1 ELSE 0) + Passing(scored, i + 1)

\* faulty variant: a SELECT whose quantifier fails reports no residues
SelectFromCallFailedEmpty(self, mutations) ==
    LET operation == self.children[1]
        rest == SubSeq(self.children, 2, Len(self.children))
        scored == Scores(rest, mutations)
        verdict == QuantifierCall(operation, Passing(scored, 1))
        residues == ReduceOr([i \in 1..Len(scored) |-> scored[i].residues],
                             2, scored[1].residues)
    IN  IF HasRaise(scored) THEN FirstRaise(scored)
        ELSE IF Raises(verdict) THEN verdict
        ELSE IF residues.raised THEN ValueError
        ELSE Score(verdict.score,
                   IF Truthy(verdict.score) THEN residues.set ELSE {})

\* SelectFrom.__call__
SelectFromCall(self, mutations) ==
    LET operation == self.children[1]
        rest == SubSeq(self.children, 2, Len(self.children))
        scored == Scores(rest, mutations)
        passing == Passing(scored, 1)
        verdict == QuantifierCall(operation, passing)
        residues == ReduceOr([i \in 1..Len(scored) |-> scored[i].residues],
                             2, scored[1].residues)
    IN  IF HasRaise(scored) THEN FirstRaise(scored)
        ELSE IF Raises(verdict) THEN verdict
        ELSE IF residues.raised THEN ValueError
        ELSE Score(verdict.score, residues.set)

\* faulty variant: a false condition yields None instead of the score 0
ScoreExprCallFalseIsNone(self, mutations) ==
    LET score == IF self.op = "-" THEN (-1) * self.num ELSE self.num
        result == Call(self.children[1], mutations)
    IN  IF Raises(result) THEN result
        ELSE IF result = None \/ IsFalse(result.score) THEN None
        ELSE Score(PyInt(score), result.residues)

\* ScoreExpr.__call__
ScoreExprCall(self, mutations) ==
    LET score == IF self.op = "-" THEN (-1) * self.num ELSE self.num
        result == Call(self.children[1], mutations)
    IN  IF Raises(result) THEN result
        ELSE IF result = None THEN None
        ELSE IF IsFalse(result.score) THEN Score(PyInt(0), {})
        ELSE Score(PyInt(score), result.residues)

\* sum(values) and max(values) of a non-empty list of ints
RECURSIVE SumOf(_, _)
SumOf(values, i) ==
    IF i > Len(values) THEN 0 ELSE values[i] + SumOf(values, i + 1)
MaxOf(values) ==
    CHOOSE m \in {values[i] : i \in 1..Len(values)} :
        \A i \in 1..Len(values) : values[i] <= m

\* [score.score for score in scores if score.score]
RECURSIVE MatchedScores(_, _)
MatchedScores(scores, i) ==
    IF i > Len(scores) THEN <<>>
    ELSE (IF Truthy(scores[i].score) THEN <<scores[i].score.n>> ELSE <<>>)
         \o MatchedScores(scores, i + 1)

\* faulty variant: every item takes part in the aggregate, matched or not
ScoreListCallAllScores(self, mutations) ==
    LET scores == Scores(self.children, mutations)
        all_scores == [i \in 1..Len(scores) |-> scores[i].score.n]
        residues == ReduceOr([i \in 1..Len(scores) |-> scores[i].residues],
                             2, scores[1].residues)
    IN  IF HasRaise(scores) THEN FirstRaise(scores)
        ELSE IF residues.raised THEN ValueError
        ELSE Score(IF self.op = "MAX" THEN PyInt(MaxOf(all_scores))
                   ELSE PyInt(SumOf(all_scores, 1)), residues.set)

\* faulty variant: the residues are those of the items whose score is the
\* aggregate
ScoreListCallWinnerResidues(self, mutations) ==
    LET scores == Scores(self.children, mutations)
        matched_scores == MatchedScores(scores, 1)
        value == IF Len(matched_scores) = 0 THEN PyFalse
                 ELSE IF self.op = "MAX" THEN PyInt(MaxOf(matched_scores))
                 ELSE PyInt(SumOf(matched_scores, 1))
    IN  IF HasRaise(scores) THEN FirstRaise(scores)
        ELSE Score(value, UNION {scores[i].residues :
                                    i \in {j \in 1..Len(scores) :
                                              scores[j].score.n = value.n}})

\* ScoreList.__call__
ScoreListCall(self, mutations) ==
    LET terms == self.children
        scores == Scores(terms, mutations)
        matched_scores == MatchedScores(scores, 1)
        residues == ReduceOr([i \in 1..Len(scores) |-> scores[i].residues],
                             2, scores[1].residues)
        value == IF Len(matched_scores) = 0 THEN PyFalse
                 ELSE IF self.op = "MAX" THEN PyInt(MaxOf(matched_scores))
                 ELSE PyInt(SumOf(matched_scores, 1))
    IN  IF HasRaise(scores) THEN FirstRaise(scores)
        ELSE IF residues.raised THEN ValueError
        ELSE Score(value, residues.set)

\* AsiScoreCond.__call__: sum(generator, start) calls the i-th child, then
\* adds its Score to the sum so far (Score.__add__)
RECURSIVE AsiScoreCondSum(_, _, _, _)
AsiScoreCondSum(self, args, i, acc) ==
    IF i > Len(self.children) THEN acc
    ELSE LET term == Call(self.children[i], args)
         IN  IF Raises(term) THEN term
             ELSE IF SetOpRaises(acc.residues, term.residues) THEN ValueError
             ELSE AsiScoreCondSum(self, args, i + 1,
                                  Score(PyAdd(acc.score, term.score),
                                        SetOr(acc.residues, term.residues)))

\* faulty variant: only the first list is added to the start value
AsiScoreCondCallFirstList(self, args) ==
    LET term == Call(self.children[1], args)
    IN  IF Raises(term) THEN term
        ELSE Score(PyAdd(PyFalse, term.score), term.residues)

AsiScoreCondCall(self, args) == AsiScoreCondSum(self, args, 1, Score(PyFalse, {}))

\* node(mutations): the __call__ of the node's class
Call(node, mutations) ==
    CASE node.kind = "AsiMutations" -> AsiMutationsCall(node, mutations)
      [] node.kind = "Negate" -> NegateCall(node, mutations)
      [] node.kind = "AndExpr" -> AndExprCall(node, mutations)
      [] node.kind = "OrExpr" -> OrExprCall(node, mutations)
      [] node.kind = "SelectFrom" -> SelectFromCall(node, mutations)
      [] node.kind = "ScoreExpr" -> ScoreExprCall(node, mutations)
      [] node.kind = "ScoreList" -> ScoreListCall(node, mutations)
      [] node.kind = "ScoreCond" -> AsiScoreCondCall(node, mutations)

----------------------------------------------------------------------------
(* pyvdrm/hcvr.py: Score with flags, and the nodes of a SCORE FROM rule *)

\* booleancondition => " flag ": a ScoreExpr of four children
ScoreFlag(operation, flag) ==
    Node("ScoreFlag", flag, 0, NoMutations, <<operation>>)

\* Score(score, residues, flags): flags is the dict that __init__ binds as
\* the default of its parameter (ref "default", one object for the life of
\* the process, its keys are in default_flags) or a dict of the call (ref
\* "fresh", its keys are in flags); a flag's list of evidence is left out
HcvrScore(score, residues, ref, flags) ==
    [kind |-> "Score", score |-> score, residues |-> residues, pos |-> 0,
     ref |-> ref, flags |-> flags]
\* Score(score, residues)
HcvrDefault(score, residues) == HcvrScore(score, residues, "default", {})
\* the keys of score.flags when the default dict holds d0
FlagsOf(score, d0) == IF score.ref = "default" THEN d0 ELSE score.flags

\* update_flags(fst, snd): the keys of fst after the loop; fst is returned
update_flags(fst, snd) == fst \cup snd

\* Score.__add__: update_flags changes self.flags in place, the sum holds
\* the same dict; the result is the sum and the keys of the default dict
HcvrAdd(self, other, d0) ==
    LET flags == update_flags(FlagsOf(self, d0), FlagsOf(other, d0))
        after == IF self.ref = "default" THEN flags ELSE d0
    IN  IF SetOpRaises(self.residues, other.residues)
        THEN [out |-> ValueError, d0 |-> after]
        ELSE [out |-> HcvrScore(PyAdd(self.score, other.score),
                                SetOr(self.residues, other.residues),
                                self.ref,
                                IF self.ref = "default" THEN {} ELSE flags),
              d0 |-> after]

\* AsiMutations.__call__ of hcvr.py: None when no MutationSet matches
RECURSIVE HcvrAsiMutationsLoop(_, _, _)
HcvrAsiMutationsLoop(self, env_, i) ==
    IF i > Len(env_) THEN None
    ELSE IF SetOpRaises(self.mutations.mutations, env_[i].mutations)
         THEN ValueError
    ELSE IF Cardinality(SetAnd(self.mutations.mutations, env_[i].mutations)) > 0
         THEN HcvrDefault(PyTrue,
                          SetAnd(self.mutations.mutations, env_[i].mutations))
    ELSE HcvrAsiMutationsLoop(self, env_, i + 1)

\* Negate.__call__ of hcvr.py (NOT takes a mutation)
HcvrNegateCall(self, mutations) ==
    LET child_score == HcvrAsiMutationsLoop(self.children[1], mutations, 1)
    IN  IF Raises(child_score) THEN child_score
        ELSE IF child_score = None THEN HcvrDefault(PyTrue, {})
        ELSE HcvrDefault(PyNot(child_score.score), child_score.residues)

\* ScoreExpr.__call__ of hcvr.py: flags is a dict of the call, handed to the
\* Score of a true condition only
HcvrScoreExprCall(self, mutations) ==
    LET flags == IF self.kind = "ScoreFlag" THEN {self.op} ELSE {}
        score == IF self.kind = "ScoreFlag" THEN 0
                 ELSE IF self.op = "-" THEN (-1) * self.num ELSE self.num
        operation == self.children[1]
        result == IF operation.kind = "Negate"
                  THEN HcvrNegateCall(operation, mutations)
                  ELSE HcvrAsiMutationsLoop(operation, mutations, 1)
    IN  IF Raises(result) THEN result
        ELSE IF result = None THEN None
        ELSE IF IsFalse(result.score) THEN HcvrDefault(PyInt(0), {})
        ELSE HcvrScore(PyInt(score), result.residues, "fresh", flags)

\* clean = [x for x in noneable if x is not None]
RECURSIVE Clean(_, _)
Clean(noneable, i) ==
    IF i > Len(noneable) THEN <<>>
    ELSE (IF noneable[i] = None THEN <<>> ELSE <<noneable[i]>>)
         \o Clean(noneable, i + 1)

\* reduce(lambda x, y: x+y, clean)
RECURSIVE ReduceAdd(_, _, _, _)
ReduceAdd(clean, i, acc, d0) ==
    IF i > Len(clean) THEN [out |-> acc, d0 |-> d0]
    ELSE LET sum == HcvrAdd(acc, clean[i], d0)
         IN  IF Raises(sum.out) THEN sum
             ELSE ReduceAdd(clean, i + 1, sum.out, sum.d0)

\* reduce(max, clean): max keeps its first argument unless the second is
\* greater (Score.__lt__ compares the scores)
RECURSIVE ReduceMax(_, _, _)
ReduceMax(clean, i, acc) ==
    IF i > Len(clean) THEN acc
    ELSE ReduceMax(clean, i + 1,
                   IF clean[i].score.n > acc.score.n THEN clean[i] ELSE acc)

\* maybe_foldl(lambda x, y: x+y, noneable) once the list is evaluated
MaybeFoldAdd(noneable, d0) ==
    IF Len(Clean(noneable, 1)) = 0 THEN [out |-> None, d0 |-> d0]
    ELSE ReduceAdd(Clean(noneable, 1), 2, Clean(noneable, 1)[1], d0)

\* ScoreList.__call__ of hcvr.py
HcvrScoreListCall(self, mutations, d0) ==
    LET scores == [i \in 1..Len(self.children) |->
                      HcvrScoreExprCall(self.children[i], mutations)]
    IN  IF HasRaise(scores) THEN [out |-> FirstRaise(scores), d0 |-> d0]
        ELSE IF self.op = "MAX"
        THEN [out |-> IF Len(Clean(scores, 1)) = 0 THEN None
                      ELSE ReduceMax(Clean(scores, 1), 2, Clean(scores, 1)[1]),
              d0 |-> d0]
        ELSE MaybeFoldAdd(scores, d0)

\* AsiScoreCond.__call__ of hcvr.py: map(lambda x: x(args), self.children)
\* calls the lists in order, each on the default dict as the lists before it
\* left it, up to the first one that raises; the results are then added
HcvrAsiScoreCondCall(self, args, d0) ==
    LET n == Len(self.children)
        term[i \in 0..n] ==
            IF i = 0 THEN [out |-> None, d0 |-> d0]
            ELSE HcvrScoreListCall(self.children[i], args, term[i - 1].d0)
        raising == {i \in 1..n : Raises(term[i].out)}
        first == CHOOSE i \in raising : \A j \in raising : i <= j
    IN  IF raising # {} THEN term[first]
        ELSE MaybeFoldAdd([i \in 1..n |-> term[i].out], term[n].d0)

\* what the caller reads off the returned Score: score, residues and the
\* keys of its flags
Returned(call) ==
    IF IsScore(call.out)
    THEN [kind |-> "Score", score |-> call.out.score,
          residues |-> call.out.residues, pos |-> 0,
          flags |-> FlagsOf(call.out, call.d0)]
    ELSE call.out

\* EqualityExpr.__call__(x) of hcvr.py: a bool, or NotImplementedError
HcvrEqualityExprCall(self, x) ==
    IF self.op = "ATLEAST" THEN Score(PyBool(x >= self.num), {})
    ELSE IF self.op = "EXACTLY" THEN Score(PyBool(x = self.num), {})
    ELSE IF self.op = "NOMORETHAN" THEN Score(PyBool(x <= self.num), {})
    ELSE Raise("NotImplementedError", 0)

\* a residue of a residue_list: mutation | NOT mutation
HcvrResidueCall(self, mutations) ==
    IF self.kind = "Negate" THEN HcvrNegateCall(self, mutations)
    ELSE HcvrAsiMutationsLoop(self, mutations, 1)

\* SelectFrom.__call__ of hcvr.py. maybe_map drops the residues that return
\* None and returns None, not a list, when none is left: list(None) raises
\* TypeError. The folded lambda returns a set, so with one score the fold is
\* that Score itself and set(Score) raises TypeError, and with three or more
\* the second step reads .residues of a set and raises AttributeError.
HcvrSelectFromCall(self, mutations) ==
    LET operation == self.children[1]
        rest == SubSeq(self.children, 2, Len(self.children))
        called == [i \in 1..Len(rest) |-> HcvrResidueCall(rest[i], mutations)]
        scored == SelectSeq(called, LAMBDA score : score # None)
        passing == Len(scored)
        verdict == HcvrEqualityExprCall(operation, passing)
    IN  IF HasRaise(called) THEN FirstRaise(called)
        ELSE IF passing = 0 THEN Raise("TypeError", 0)
        ELSE IF Raises(verdict) THEN verdict
        ELSE IF ~Truthy(verdict.score) THEN None
        ELSE IF passing = 1 THEN Raise("TypeError", 0)
        ELSE IF SetOpRaises(scored[1].residues, scored[2].residues)
        THEN ValueError
        ELSE IF passing > 2 THEN Raise("AttributeError", 0)
        ELSE HcvrDefault(PyTrue,
                         SetOr(scored[1].residues, scored[2].residues))

----------------------------------------------------------------------------
(* pyvdrm/hcvr2.py: the second HCV dialect. Scores are floats, written here
   as fractions <<numerator, denominator>> in lowest terms *)

RECURSIVE GCD(_, _)
GCD(a, b) == IF b = 0 THEN a ELSE GCD(b, a % b)
Rat(n, d) ==
    LET g == GCD(IF n < 0 THEN -n ELSE n, d) IN <<n \div g, d \div g>>
RatAdd(x, y) == Rat(x[1] * y[2] + y[1] * x[2], x[2] * y[2])
RatLess(x, y) == x[1] * y[2] < y[1] * x[2]
\* 0.0
Zero == <<0, 1>>

\* the nodes of a rule text and of the tree the parse actions build
Hcvr2Node(kind, op, num, mutations, children) ==
    [kind |-> kind, op |-> op, num |-> num,
     mutations |-> mutations, children |-> children]

\* the rule text, as the grammar groups it
\* residue
TextResidue(pos, variants) ==
    Hcvr2Node("residue", "", Zero, MutationSet(NoWt, pos, variants), <<>>)
\* TRUE, FALSE
TextBool(literal) == Hcvr2Node(literal, "", Zero, NoMutations, <<>>)
\* ( condition AND condition ), ( condition OR condition )
TextInfix(op, larg, rarg) ==
    Hcvr2Node("infix", op, Zero, NoMutations, <<larg, rarg>>)
\* float_
TextFloat(num) == Hcvr2Node("float", "", num, NoMutations, <<>>)
\* condition => score
TextItem(condition, score) ==
    Hcvr2Node("item", "", Zero, NoMutations, <<condition, score>>)
\* [MAX | MIN | MEAN] ( expr, ... )
TextList(accumulator, items) ==
    Hcvr2Node("list", accumulator, Zero, NoMutations, items)

\* HCVR2.parser: the tree of the parse actions. bool_ suppresses both of
\* its literals and has no parse action of its own, so TRUE and FALSE each
\* leave a Condition without children; a token that stays a string (a
\* float, an accumulator) is a node of kind "token".
RECURSIVE Hcvr2Parser(_, _)
Hcvr2Parser(text, as) ==
    LET parsed(children) ==
            [i \in 1..Len(children) |->
                Hcvr2Parser(children[i],
                            IF text.kind = "infix" THEN "condition"
                            ELSE IF text.kind = "list" THEN "expr"
                            ELSE IF i = 1 THEN "condition" ELSE "score")]
        token(string, num) ==
            Hcvr2Node("token", string, num, NoMutations, <<>>)
        inner ==
            IF text.kind = "residue"
            THEN Hcvr2Node("AsiMutations", "", Zero, text.mutations, <<>>)
            ELSE IF text.kind \in {"TRUE", "FALSE"} THEN token("", Zero)
            ELSE IF text.kind = "infix"
            THEN Hcvr2Node(IF text.op = "AND" THEN "AndExpr" ELSE "OrExpr",
                           "", Zero, NoMutations, parsed(text.children))
            ELSE IF text.kind = "float" THEN token("float", text.num)
            ELSE IF text.kind = "item"
            THEN Hcvr2Node("Expr", "", Zero, NoMutations,
                           parsed(text.children))
            ELSE Hcvr2Node("ExprList", "", Zero, NoMutations,
                           (IF text.op = "" THEN <<>>
                            ELSE <<token(text.op, Zero)>>)
                           \o parsed(text.children))
    IN  IF as = "condition"
        THEN Hcvr2Node("Condition", "", Zero, NoMutations,
                       IF text.kind \in {"TRUE", "FALSE"} THEN <<>>
                       ELSE <<inner>>)
        ELSE IF as = "score"
        THEN Hcvr2Node("ScoreExpr", "", Zero, NoMutations, <<inner>>)
        ELSE IF text.kind = "float"
        THEN Hcvr2Node("Expr", "", Zero, NoMutations, <<inner>>)
        ELSE inner

\* AsiMutations.__call__ of hcvr2.py, from the i-th mutation_set of env on
RECURSIVE Hcvr2AsiMutationsLoop(_, _, _, _)
Hcvr2AsiMutationsLoop(self, env_, i, is_found) ==
    IF i > Len(env_)
    THEN IF ~is_found THEN "MissingPositionError" ELSE "False"
    ELSE IF SetOpRaises(self.mutations.mutations, env_[i].mutations)
         THEN "ValueError"
    ELSE IF Cardinality(SetAnd(self.mutations.mutations, env_[i].mutations)) > 0
         THEN "True"
    ELSE Hcvr2AsiMutationsLoop(self, env_, i + 1,
                               is_found \/ env_[i].pos = self.mutations.pos)

\* what a condition returns: "True", "False", "None", "object" (a node of
\* the tree) or the name of the exception it raises
Hcvr2Truthy(value) == value \in {"True", "object"}
Hcvr2Raised(value) == value \in {"MissingPositionError", "ValueError"}

\* Condition.__call__, AndExpr.__call__, OrExpr.__call__: OrExpr returns
\* larg or rarg, the children themselves, and calls neither
RECURSIVE Hcvr2Condition(_, _)
Hcvr2Condition(self, mutations) ==
    IF self.kind = "AsiMutations"
    THEN Hcvr2AsiMutationsLoop(self, mutations, 1, FALSE)
    ELSE IF self.kind = "Condition"
    THEN IF Len(self.children) = 1
         THEN Hcvr2Condition(self.children[1], mutations)
         ELSE "None"
    ELSE IF self.kind = "AndExpr"
    THEN LET larg == Hcvr2Condition(self.children[1], mutations)
         IN  IF Hcvr2Raised(larg) \/ ~Hcvr2Truthy(larg) THEN larg
             ELSE Hcvr2Condition(self.children[2], mutations)
    ELSE "object"

\* what a score expression returns: a float, or the exception raised
Hcvr2Float(num) == [raised |-> "", val |-> num]
Hcvr2Raise(exception) == [raised |-> exception, val |-> Zero]

\* sum(scores), max(scores), min(scores), sum(scores) / len(scores)
Hcvr2Func(operation, scores) ==
    LET n == Len(scores)
        sum[i \in 0..n] ==
            IF i = 0 THEN Zero ELSE RatAdd(sum[i - 1], scores[i].val)
        max[i \in 1..n] ==
            IF i = 1 THEN scores[1].val
            ELSE IF RatLess(max[i - 1], scores[i].val) THEN scores[i].val
            ELSE max[i - 1]
        min[i \in 1..n] ==
            IF i = 1 THEN scores[1].val
            ELSE IF RatLess(scores[i].val, min[i - 1]) THEN scores[i].val
            ELSE min[i - 1]
    IN  IF operation = "MAX" THEN max[n]
        ELSE IF operation = "MIN" THEN min[n]
        ELSE IF operation = "MEAN" THEN Rat(sum[n][1], sum[n][2] * n)
        ELSE sum[n]

\* ScoreExpr.__call__, ExprList.__call__, Expr.__call__
RECURSIVE Hcvr2Call(_, _)
Hcvr2Call(self, mutations) ==
    IF self.kind = "ScoreExpr"
    THEN IF self.children[1].kind = "ExprList"
         THEN Hcvr2Call(self.children[1], mutations)
         ELSE Hcvr2Float(self.children[1].num)
    ELSE IF self.kind = "ExprList"
    THEN LET operation == IF self.children[1].kind = "token"
                          THEN self.children[1].op ELSE ""
             terms == IF operation \in {"MAX", "MIN", "MEAN"}
                      THEN SubSeq(self.children, 2, Len(self.children))
                      ELSE self.children
             scores == [i \in 1..Len(terms) |-> Hcvr2Call(terms[i], mutations)]
         IN  IF \E i \in 1..Len(scores) : scores[i].raised # ""
             THEN scores[CHOOSE i \in 1..Len(scores) :
                            /\ scores[i].raised # ""
                            /\ \A j \in 1..(i - 1) : scores[j].raised = ""]
             ELSE Hcvr2Float(Hcvr2Func(operation, scores))
    ELSE IF Len(self.children) = 1
    THEN Hcvr2Float(self.children[1].num)
    ELSE LET condition == Hcvr2Condition(self.children[1], mutations)
         IN  IF Hcvr2Raised(condition) THEN Hcvr2Raise(condition)
             ELSE IF Hcvr2Truthy(condition)
             THEN Hcvr2Call(self.children[2], mutations)
             ELSE Hcvr2Float(Zero)

----------------------------------------------------------------------------
(* pyvdrm/drm.py: Score and IntScore *)

\* the elements of an evidence list: a value, or a list of elements
PyAtom(a) == [list |-> FALSE, atom |-> a, items |-> <<>>]
PyList(items) == [list |-> TRUE, atom |-> "", items |-> items]

\* score None
NoScore == -1

\* IntScore(score, residues, flags)
IntScore(score, residues, flags) ==
    [kind |-> "IntScore", score |-> score, residues |-> residues,
     flags |-> flags]

\* Score.update_flags(fst, snd): fst after the loop, a map from the flags
\* to their evidence lists; fst[k].append(snd[k]) adds the list snd[k] as
\* one element
Score_update_flags(fst, snd) ==
    [k \in DOMAIN fst \cup DOMAIN snd |->
        IF k \in DOMAIN fst /\ k \in DOMAIN snd
        THEN Append(fst[k], PyList(snd[k]))
        ELSE IF k \in DOMAIN fst THEN fst[k] ELSE snd[k]]

\* IntScore.__add__: the sum, or the exception raised, and self.flags,
\* which update_flags has changed in place before anything can raise
IntScoreAdd(self, other) ==
    LET flags == Score_update_flags(self.flags, other.flags)
        raised(exception) == [kind |-> exception, score |-> NoScore,
                              residues |-> {}, flags |-> <<>>,
                              self_flags |-> flags]
    IN  IF other.score # NoScore /\ self.score = NoScore
        THEN raised("TypeError")
        ELSE IF SetOpRaises(self.residues, other.residues)
        THEN raised("ValueError")
        ELSE [kind |-> "IntScore",
              score |-> IF other.score # NoScore
                        THEN self.score + other.score ELSE self.score,
              residues |-> SetOr(self.residues, other.residues),
              flags |-> flags,
              self_flags |-> flags]

----------------------------------------------------------------------------
(* pyvdrm/drm.py: the rule facade *)

\* DrmBinaryExpr.typecheck, for every OR of the matched text: a parse action
\* that raises AsiParseError ends the parse
RECURSIVE Typechecks(_)
Typechecks(node) ==
    /\ node.kind = "OrExpr" => Len(node.children) = 2
    /\ \A i \in 1..Len(node.children) : Typechecks(node.children[i])

\* ASI2.parser: statement.parseString(rule), called without parseAll. A rule
\* given as a node stands for a text the grammar matches as a whole. A Text
\* is a text of which the grammar matches a statement at most at its start:
\* parseString returns the tokens of that statement and leaves the rest of
\* the text unread, and raises ParseException when no statement starts the
\* text
ASI2Parser(rule_) ==
    IF rule_.kind # "Text" THEN rule_
    ELSE IF Len(rule_.children) = 0 THEN ParseException
    ELSE rule_.children[1]

\* DRMParser.__init__: self.dtree, *rest = self.parser(rule); the parse
\* actions build the nodes while the text is parsed
DRMParserInit(rule_) ==
    LET tokens == ASI2Parser(rule_)
    IN  IF tokens = ParseException THEN ParseException
        ELSE IF Typechecks(tokens) THEN tokens
        ELSE AsiParseError

\* DRMParser.__call__, given score = self.dtree(mutations)
DRMParserCall(score) ==
    IF Raises(score) THEN score
    ELSE IF score = None THEN Score(PyFalse, {})
    ELSE Score(score.score, {})

----------------------------------------------------------------------------
(* The callers' inputs *)

\* the MutationSets a caller can put into an environment
Calls ==
    {MutationSet(w, p, v) : w \in {NoWt} \cup Wildtypes, p \in Positions,
                            v \in (SUBSET Variants) \ {{}}}

\* residues of the rules: position 3 is sequenced in no generic environment
\* unless NumPos reaches it
G1 == AsiMutations(NoWt, 1, {"A"})
G2 == AsiMutations(NoWt, 2, {"A"})
G3 == AsiMutations("Q", 1, {"A"})
G4 == AsiMutations("R", 1, {"A"})
G5 == AsiMutations(NoWt, 3, {"A"})

ResidueRules ==
    {AsiMutations(w, p, v) : w \in {NoWt, "Q"}, p \in {1, 3},
                             v \in (SUBSET Variants) \ {{}}}

\* one rule or two of every shape, over residues that can be missing (G5,
\* and any other when the sample lacks its position) or mismatched (G3, G4)
Item(operation, score) == ScoreExpr(operation, "", score)
MixedRules ==
    {Negate(G1), Negate(G5),
     AndExpr(<<G1, G5>>), AndExpr(<<G3, G5>>), AndExpr(<<G1, G2, G4>>),
     OrExpr(<<G1, G5>>), OrExpr(<<G4, G2>>),
     AndExpr(<<G1, OrExpr(<<G2, Negate(G5)>>)>>),
     SelectFrom(EqualityExpr("ATLEAST", 1), <<G1, G2, G5>>),
     SelectFrom(EqualityExpr("EXACTLY", 1), <<G3, Negate(G2)>>),
     AsiScoreCond(<<ScoreList("", <<Item(G1, 10), Item(G5, 20)>>)>>),
     AsiScoreCond(<<ScoreList("MAX", <<Item(G2, 10), Item(G4, 20)>>),
                    ScoreList("", <<Item(Negate(G1), 5)>>)>>)}

Rules == ResidueRules \cup MixedRules

\* A AND (B AND C) and A AND B AND C, over operands that can be false, that
\* can miss their position, and whose wild types differ
Operands == {G2, G3, G4}
AndRules ==
    {AndExpr(<<a, AndExpr(<<b, c>>)>>) : a \in Operands, b \in Operands, c \in Operands}
    \cup {AndExpr(<<a, b, c>>) : a \in Operands, b \in Operands, c \in Operands}

\* A OR B, A OR (B OR C), and the chain A OR B OR C
OrRules ==
    {OrExpr(<<a, b>>) : a \in Operands \cup {G1}, b \in Operands \cup {G1}}
    \cup {OrExpr(<<a, OrExpr(<<b, G2>>)>>) : a \in Operands, b \in Operands}
    \cup {OrExpr(<<a, Negate(G2)>>) : a \in Operands \cup {G1}}
    \cup {OrExpr(<<a, G1, b>>) : a \in Operands, b \in Operands}

\* SELECT ATLEAST k FROM (...) and SELECT EXACTLY k FROM (...)
G6 == AsiMutations(NoWt, 1, {"B"})
SelectLists == {<<G1, G2>>, <<G1, G6, G2>>, <<G3, G4, G2>>, <<G1, G5>>}
SelectRules ==
    {SelectFrom(EqualityExpr(operation, k), rest) :
        operation \in {"ATLEAST", "EXACTLY"}, k \in 0..3, rest \in SelectLists}

\* SELECT NOTMORETHAN k FROM (...), and SELECT with a compound quantifier
\* such as ATLEAST 2 AND NOTMORETHAN 2
Quantifiers ==
    {EqualityExpr(operation, k) :
        operation \in {"ATLEAST", "EXACTLY", "NOTMORETHAN"}, k \in 1..2}
CompoundQuantifiers ==
    {AndExpr(<<EqualityExpr("ATLEAST", 2), EqualityExpr("NOTMORETHAN", 2)>>),
     AndExpr(<<EqualityExpr("ATLEAST", 1), EqualityExpr("EXACTLY", 2)>>),
     AndExpr(<<EqualityExpr("NOTMORETHAN", 2), EqualityExpr("ATLEAST", 1)>>),
     OrExpr(<<EqualityExpr("EXACTLY", 0), EqualityExpr("ATLEAST", 2)>>),
     OrExpr(<<EqualityExpr("ATLEAST", 2), EqualityExpr("NOTMORETHAN", 0)>>),
     OrExpr(<<AndExpr(<<EqualityExpr("ATLEAST", 1), EqualityExpr("EXACTLY", 1)>>),
              EqualityExpr("EXACTLY", 3)>>)}
QuantifierRules ==
    {SelectFrom(operation, rest) :
        operation \in Quantifiers \cup CompoundQuantifiers, rest \in SelectLists}

\* SCORE FROM (...): one score list or two, summed or maxed, over items
\* whose scores are positive, negative or zero, whose conditions can be
\* false, negated or compound, and whose wild types can differ
ItemMinus(operation, score) == ScoreExpr(operation, "-", score)
ScoreItems ==
    {<<Item(G1, 1), Item(G2, 3)>>,
     <<ItemMinus(G1, 2), ItemMinus(G2, 1)>>,
     <<ItemMinus(G1, 2), Item(G6, 1), Item(G2, 3)>>,
     <<Item(G1, 0), Item(G2, 3)>>,
     <<Item(G3, 1), Item(G4, 3)>>,
     <<Item(Negate(G1), 1), ItemMinus(G2, 1)>>,
     <<Item(G1, 1), ItemMinus(G2, 1)>>,
     <<Item(AndExpr(<<G1, G2>>), 3), Item(G1, 1)>>}
ScoreRules ==
    {AsiScoreCond(<<ScoreList(op, items)>>) : op \in {"", "MAX"}, items \in ScoreItems}
    \cup {AsiScoreCond(<<ScoreList("MAX", <<Item(G1, 1), ItemMinus(G6, 2)>>),
                         ScoreList(op, items)>>) :
             op \in {"", "MAX"},
             items \in {<<Item(G2, 3)>>, <<ItemMinus(G2, 1), Item(G1, 1)>>,
                        <<Item(G3, 1)>>}}
    \cup {AsiScoreCond(<<ScoreList("", <<Item(G3, 1)>>),
                         ScoreList("MAX", <<Item(G4, 3), Item(G2, 1)>>)>>)}

\* the rules and the samples of the specification's scenarios and of
\* tests/test_asi2.py
M(pos, variants) == AsiMutations(NoWt, pos, variants)
Sample(pos, variants) == MutationSet(NoWt, pos, variants)
\* 1G AND (2T AND 7Y)
RuleAnd127 == AndExpr(<<M(1, {"G"}), AndExpr(<<M(2, {"T"}), M(7, {"Y"})>>)>>)
\* SELECT ATLEAST 2 FROM (41L, 67N, 70R, 210W, 215F, 219Q)
RuleAtleast2 ==
    SelectFrom(EqualityExpr("ATLEAST", 2),
               <<M(41, {"L"}), M(67, {"N"}), M(70, {"R"}),
                 M(210, {"W"}), M(215, {"F"}), M(219, {"Q"})>>)
\* SCORE FROM ( NOT 100G => 10, NOT 101SD => 20 )
RuleScoreNegate ==
    AsiScoreCond(<<ScoreList("", <<Item(Negate(M(100, {"G"})), 10),
                                   Item(Negate(M(101, {"S", "D"})), 20)>>)>>)
\* SCORE FROM (MAX (100G => 10, 101D => 20, 102D => 30))
RuleScoreMax ==
    AsiScoreCond(<<ScoreList("MAX", <<Item(M(100, {"G"}), 10),
                                      Item(M(101, {"D"}), 20),
                                      Item(M(102, {"D"}), 30)>>)>>)
\* SCORE FROM (MAX (100G => -10, 101D => -20, 102D => 30))
RuleScoreMaxNeg ==
    AsiScoreCond(<<ScoreList("MAX", <<ItemMinus(M(100, {"G"}), 10),
                                      ItemMinus(M(101, {"D"}), 20),
                                      Item(M(102, {"D"}), 30)>>)>>)
\* SCORE FROM ( 100G => 10, 101D => 20 )
RuleScoreFrom ==
    AsiScoreCond(<<ScoreList("", <<Item(M(100, {"G"}), 10),
                                   Item(M(101, {"D"}), 20)>>)>>)
ScoreScenarioRules == {RuleScoreMax, RuleScoreMaxNeg, RuleScoreFrom}
\* the calls of the samples the score tests evaluate a rule on
ScoreScenarioCalls ==
    {Sample(100, {"G"}), Sample(100, {"d"}), Sample(101, {"D"}),
     Sample(101, {"d"}), Sample(102, {"d"}),
     MutationSet("S", 100, {"G"}), MutationSet("R", 101, {"d"})}

\* rule texts: texts that are one statement, texts that go on after a
\* statement with something no statement continues with, and texts that no
\* statement starts
\* "151M AND EXCLUDE 69i"
TextExclude == Text(<<M(151, {"M"})>>, " AND EXCLUDE 69i")
\* "(184V AND 115F) => 203N AND 9N"
TextScoreItem ==
    Text(<<AndExpr(<<M(184, {"V"}), M(115, {"F"})>>)>>, " => 203N AND 9N")
\* "SCORE FROM ( 10R => 2;0 )"
TextSemicolon == Text(NoStatement, "SCORE FROM ( 10R => 2;0 )")
Rests == {"", " AND EXCLUDE 2A", " => 5", ";"}
Texts ==
    {Text(<<statement>>, rest) :
        statement \in {G1, G2, Negate(G1), AndExpr(<<G1, G2>>), OrExpr(<<G1, G2>>),
                       OrExpr(<<G1, G2, G6>>)},
        rest \in Rests}
    \cup {TextExclude, TextScoreItem, TextSemicolon, Text(NoStatement, ";")}

ScenarioRules ==
    {RuleAnd127, RuleAtleast2, RuleScoreNegate,
     Negate(M(100, {"G"})), Negate(M(101, {"S", "D"}))}

\* the calls of the samples the scenarios and the tests evaluate a rule on
ScenarioCalls(r) ==
    IF r = RuleAnd127
    THEN {Sample(1, {"G"}), Sample(2, {"T"}), Sample(7, {"Y"}), Sample(7, {"d"})}
    ELSE IF r = RuleAtleast2
    THEN {Sample(41, {"L"}), Sample(67, {"N"}), Sample(67, {"d"}),
          Sample(70, {"d"}), Sample(210, {"d"}), Sample(215, {"d"}),
          Sample(219, {"d"})}
    ELSE {Sample(100, {"G"}), Sample(100, {"S"}), Sample(101, {"d"}),
          Sample(101, {"S"}), Sample(101, {"D", "S"})}

\* aligned sequences: references of wild type letters, samples of one or
\* more letters per position
SampleLetters == Wildtypes \cup {"A"}
References == UNION {[1..n -> Wildtypes] : n \in 1..RefLen}
AlignedSamples ==
    UNION {[1..n -> (SUBSET SampleLetters) \ {{}}] : n \in 1..RefLen}
\* test_init_single_sequence, test_init_multiple_sequences
ReferenceACHE == <<"A", "C", "H", "E">>
SampleICRE == <<{"I"}, {"C"}, {"R"}, {"E"}>>
SampleINCHRE == <<{"I", "N"}, {"C"}, {"H", "R"}, {"E"}>>
\* rules on the positions of the literal sequences
RuleC2C == AsiMutations("C", 2, {"C"})
Rule3R == M(3, {"R"})
LiteralAlignedRules == {RuleC2C, Rule3R, Negate(M(4, {"E"}))}
AlignedRules ==
    {AsiMutations(w, p, {v}) : w \in {NoWt, "Q"}, p \in 1..RefLen,
                               v \in {"Q", "A"}}
    \cup {Negate(M(p, {"A"})) : p \in 1..RefLen}
    \cup LiteralAlignedRules
\* every order in which a set can be iterated
Orderings(S) ==
    {s \in [1..Cardinality(S) -> S] :
        \A i, j \in 1..Cardinality(S) : i # j => s[i] # s[j]}

\* hcvr.py: SCORE FROM rules of one or two lists, of items with a number or
\* a flag; the samples of its tests name no wild type
HcvrConditions == {M(1, {"A"}), Negate(M(1, {"A"}))}
HcvrItems ==
    {ScoreExpr(c, "", 1) : c \in HcvrConditions}
    \cup {ScoreExpr(M(2, {"A"}), "-", 1), ScoreFlag(M(2, {"A"}), "comment")}
HcvrLists ==
    {ScoreList(op, <<a, b>>) : op \in {"", "MAX"}, a \in HcvrItems, b \in HcvrItems}
HcvrRules ==
    {AsiScoreCond(<<l>>) : l \in HcvrLists}
    \cup {AsiScoreCond(<<ScoreList("", <<a>>), ScoreList("", <<b>>)>>) :
             a \in HcvrItems, b \in {ScoreFlag(M(2, {"A"}), "comment")}}
HcvrCalls == {c \in Calls : c.wildtype = NoWt}

\* HCVR2 rules: lists of items whose conditions are residues, constants,
\* conjunctions and disjunctions, with floats or nested lists as scores
Hcvr2Residues == {TextResidue(1, {"A"}), TextResidue(2, {"A"})}
Hcvr2Conditions ==
    Hcvr2Residues \cup {TextBool("TRUE"), TextBool("FALSE")}
    \cup {TextInfix(op, TextResidue(1, {"A"}), TextResidue(2, {"A"})) :
             op \in {"AND", "OR"}}
Hcvr2Floats == {<<1, 4>>, <<3, 1>>}
Hcvr2InnerLists ==
    {TextList("", <<TextItem(TextResidue(2, {"B"}), TextFloat(<<2, 1>>))>>),
     TextList("MEAN", <<TextFloat(<<1, 2>>),
                        TextItem(TextResidue(1, {"B"}), TextFloat(<<2, 1>>))>>)}
Hcvr2Items ==
    {TextItem(c, TextFloat(f)) : c \in Hcvr2Conditions, f \in Hcvr2Floats}
    \cup {TextItem(c, l) : c \in Hcvr2Conditions, l \in Hcvr2InnerLists}
    \cup {TextFloat(<<1, 2>>)}
Hcvr2Rules ==
    {TextList(op, items) :
        op \in {"", "MAX", "MIN", "MEAN"},
        items \in UNION {[1..n -> Hcvr2Items] : n \in 1..MaxItems}}

\* SELECT quantifier k FROM (up to three different residues)
HcvrResidues == {M(p, {v}) : p \in Positions, v \in Variants}
HcvrResidueLists ==
    {l \in UNION {[1..n -> HcvrResidues] : n \in 1..3} :
        \A i, j \in 1..Len(l) : l[i] = l[j] => i = j}
HcvrSelectRules ==
    {SelectFrom(EqualityExpr(op, k), l) :
        op \in {"ATLEAST", "EXACTLY"}, k \in 1..3, l \in HcvrResidueLists}

----------------------------------------------------------------------------
(* The state machine: a rule is constructed, then called on environments *)

\* the state after ASI2(rule)
InitWith(rules) ==
    /\ rule \in rules
    /\ dtree = DRMParserInit(rule)
    /\ env = <<>>
    /\ outcome = NotCalled
    /\ pc = "build"
    /\ variant_calls = NoVariantCalls
    /\ default_flags = {}
    /\ given = <<>>
    /\ returned = NotCalled

\* VariantCalls: the caller collects the MutationSets of a sample; equal
\* MutationSets are one member of the frozenset, and two of equal hash and
\* different wild types cannot be members of one frozenset
AddMutationSet(calls, max) ==
    /\ pc = "build"
    /\ Len(env) < max
    /\ \E ms \in calls :
         /\ \A i \in 1..Len(env) :
              {MutationHash(m) : m \in env[i].mutations}
                  # {MutationHash(m) : m \in ms.mutations}
         /\ env' = Append(env, ms)
    /\ UNCHANGED <<rule, dtree, outcome, pc, variant_calls, default_flags, given, returned>>

\* rule.dtree(env): env is iterated in the order of the sequence
Evaluate ==
    /\ pc = "build"
    /\ dtree \notin {AsiParseError, ParseException}
    /\ outcome' = Call(dtree, env)
    /\ pc' = "done"
    /\ UNCHANGED <<rule, dtree, env, variant_calls, default_flags, given, returned>>

\* the caller turns to the next sample
NextSample ==
    /\ pc = "done"
    /\ env' = <<>>
    /\ outcome' = NotCalled
    /\ pc' = "build"
    /\ variant_calls' = NoVariantCalls
    /\ UNCHANGED <<rule, dtree, default_flags, given, returned>>

Next == AddMutationSet(Calls, MaxEnv) \/ Evaluate \/ NextSample

\* every shape of rule on the generic environments
Init == InitWith(Rules)
Spec == Init /\ [][Next]_vars

\* conjunctions
InitAnd == InitWith(AndRules)
SpecAnd == InitAnd /\ [][Next]_vars

\* disjunctions
InitOr == InitWith(OrRules)
SpecOr == InitOr /\ [][Next]_vars

\* selections
InitSelect == InitWith(SelectRules)
SpecSelect == InitSelect /\ [][Next]_vars

\* every boolean node kind: residues, NOT, AND, OR and SELECT
BoolRules ==
    ResidueRules \cup {r \in MixedRules : r.kind # "ScoreCond"}
    \cup OrRules \cup SelectRules
InitBool == InitWith(BoolRules)
SpecBool == InitBool /\ [][Next]_vars

\* selections with NOTMORETHAN and with compound quantifiers
InitQuantifier == InitWith(QuantifierRules)
SpecQuantifier == InitQuantifier /\ [][Next]_vars

\* rules constructed from texts
InitText == InitWith(Texts)
SpecText == InitText /\ [][Next]_vars

\* score lists and SCORE FROM, on the generic environments and on the
\* samples of the score tests
NextScore ==
    \/ AddMutationSet(IF rule \in ScoreScenarioRules
                      THEN ScoreScenarioCalls ELSE Calls,
                      IF rule \in ScoreScenarioRules THEN MaxSample ELSE MaxEnv)
    \/ Evaluate
    \/ NextSample
InitScore == InitWith(ScoreRules \cup ScoreScenarioRules)
SpecScore == InitScore /\ [][NextScore]_vars

\* the literal rules of the specification's scenarios and of the tests, on
\* samples of the calls their tests name
NextScenario ==
    AddMutationSet(ScenarioCalls(rule), MaxSample) \/ Evaluate \/ NextSample
InitScenario == InitWith(ScenarioRules)
SpecScenario == InitScenario /\ [][NextScenario]_vars

\* calls = VariantCalls(reference=reference, sample=sample)
NewVariantCalls ==
    /\ pc = "build"
    /\ env = <<>>
    /\ variant_calls = NoVariantCalls
    /\ \E reference \in (IF rule \in LiteralAlignedRules
                         THEN {ReferenceACHE} ELSE References),
          sample \in (IF rule \in LiteralAlignedRules
                      THEN {SampleICRE, SampleINCHRE} ELSE AlignedSamples) :
         variant_calls' = VariantCallsInit(reference, sample)
    /\ UNCHANGED <<rule, dtree, env, outcome, pc, default_flags, given, returned>>

\* the caller hands calls.mutation_sets to the rule: a set is iterated in an
\* order the caller does not choose
IterMutationSets ==
    /\ pc = "build"
    /\ env = <<>>
    /\ variant_calls.kind = "VariantCalls"
    /\ variant_calls.mutation_sets # {}
    /\ env' \in Orderings(variant_calls.mutation_sets)
    /\ UNCHANGED <<rule, dtree, outcome, pc, variant_calls, default_flags, given, returned>>

\* rules called on the VariantCalls of aligned sequences
NextAligned == NewVariantCalls \/ IterMutationSets \/ Evaluate \/ NextSample
InitAligned == InitWith(AlignedRules)
SpecAligned == InitAligned /\ [][NextAligned]_vars

\* the object env[i] becomes new; it is the object that calls.mutation_sets
\* holds
SetAttr(i, new) ==
    /\ env' = [env EXCEPT ![i] = new]
    /\ variant_calls' =
           IF env[i] \in variant_calls.mutation_sets
           THEN [variant_calls EXCEPT
                    !.mutation_sets = (@ \ {env[i]}) \cup {new}]
           ELSE variant_calls

\* ms.pos = p on a MutationSet: no __setattr__, no __slots__, the attribute
\* is set; the Mutations of the set keep their own pos
AssignPos ==
    /\ pc = "build"
    /\ \E i \in 1..Len(env), p \in 1..RefLen :
         SetAttr(i, [env[i] EXCEPT !.pos = p])
    /\ UNCHANGED <<rule, dtree, outcome, pc, default_flags, given, returned>>

\* ms.wildtype = w on a MutationSet
AssignWildtype ==
    /\ pc = "build"
    /\ \E i \in 1..Len(env), w \in Wildtypes :
         SetAttr(i, [env[i] EXCEPT !.wildtype = w])
    /\ UNCHANGED <<rule, dtree, outcome, pc, default_flags, given, returned>>

\* m.extract_wildtype(seq) on a Mutation of a MutationSet:
\* self.wildtype = seq[self.pos - 1]
ExtractWildtype ==
    /\ pc = "build"
    /\ \E i \in 1..Len(env), seq \in References :
         \E m \in env[i].mutations :
            /\ m.pos <= Len(seq)
            /\ SetAttr(i, [env[i] EXCEPT
                              !.mutations = (@ \ {m})
                                  \cup {[m EXCEPT !.wildtype = seq[m.pos]]}])
    /\ UNCHANGED <<rule, dtree, outcome, pc, default_flags, given, returned>>

\* calls.reference = seq on a VariantCalls
AssignReference ==
    /\ pc = "build"
    /\ variant_calls.kind = "VariantCalls"
    /\ \E seq \in References :
         variant_calls' = [variant_calls EXCEPT !.reference = seq]
    /\ UNCHANGED <<rule, dtree, env, outcome, pc, default_flags, given, returned>>

\* rules called on objects that the caller assigns to
AssignRules == {AsiMutations("Q", 1, {"A"}), M(2, {"A"}), Negate(M(1, {"A"}))}
NextAssign ==
    \/ NextAligned
    \/ AssignPos \/ AssignWildtype \/ ExtractWildtype \/ AssignReference
InitAssign == InitWith(AssignRules)
SpecAssign == InitAssign /\ [][NextAssign]_vars

\* rule.dtree(env) of an HCVR rule: an addition of Scores may leave keys in
\* the default dict
HcvrEvaluate ==
    /\ pc = "build"
    /\ LET call == HcvrAsiScoreCondCall(dtree, env, default_flags)
       IN  /\ outcome' = Returned(call)
           /\ default_flags' = call.d0
    /\ pc' = "done"
    /\ UNCHANGED <<rule, dtree, env, variant_calls, given, returned>>

\* HCVR(rule): the caller constructs another rule in the same process
NewRule ==
    /\ pc = "done"
    /\ rule' \in HcvrRules
    /\ dtree' = rule'
    /\ env' = <<>>
    /\ outcome' = NotCalled
    /\ pc' = "build"
    /\ UNCHANGED <<variant_calls, default_flags, given, returned>>

\* HCVR rules, one after the other, on samples without wild types
NextHcvr ==
    AddMutationSet(HcvrCalls, MaxEnv) \/ HcvrEvaluate \/ NextSample \/ NewRule
InitHcvr ==
    /\ rule \in HcvrRules
    /\ dtree = rule
    /\ env = <<>>
    /\ outcome = NotCalled
    /\ pc = "build"
    /\ variant_calls = NoVariantCalls
    /\ default_flags = {}
    /\ given = <<>>
    /\ returned = NotCalled
SpecHcvr == InitHcvr /\ [][NextHcvr]_vars

\* HCVR2(rule)(env)
Hcvr2Evaluate ==
    /\ pc = "build"
    /\ outcome' = Hcvr2Call(dtree, env)
    /\ pc' = "done"
    /\ UNCHANGED <<rule, dtree, env, variant_calls, default_flags, given, returned>>

\* HCVR2 rules on samples without wild types
NextHcvr2 == AddMutationSet(HcvrCalls, MaxEnv) \/ Hcvr2Evaluate \/ NextSample
InitHcvr2 ==
    /\ rule \in Hcvr2Rules
    /\ dtree = Hcvr2Parser(rule, "score")
    /\ env = <<>>
    /\ outcome = NotCalled
    /\ pc = "build"
    /\ variant_calls = NoVariantCalls
    /\ default_flags = {}
    /\ given = <<>>
    /\ returned = NotCalled
SpecHcvr2 == InitHcvr2 /\ [][NextHcvr2]_vars

\* HCVR(rule).dtree(env) for a SELECT rule
HcvrSelectEvaluate ==
    /\ pc = "build"
    /\ outcome' = HcvrSelectFromCall(dtree, env)
    /\ pc' = "done"
    /\ UNCHANGED <<rule, dtree, env, variant_calls, default_flags, given, returned>>

\* HCVR SELECT rules on samples without wild types
NextHcvrSelect ==
    AddMutationSet(HcvrCalls, MaxEnv) \/ HcvrSelectEvaluate \/ NextSample
InitHcvrSelect ==
    /\ rule \in HcvrSelectRules
    /\ dtree = rule
    /\ env = <<>>
    /\ outcome = NotCalled
    /\ pc = "build"
    /\ variant_calls = NoVariantCalls
    /\ default_flags = {}
    /\ given = <<>>
    /\ returned = NotCalled
SpecHcvrSelect == InitHcvrSelect /\ [][NextHcvrSelect]_vars

\* the Mutations of the generic positions, with and without a wild type
AllMutations ==
    {Mutation(w, p, v) : w \in {NoWt} \cup Wildtypes, p \in Positions,
                         v \in Variants}

\* self == other and the hashes of the two, for two Mutations
MutationCompare ==
    /\ \E self \in AllMutations, other \in AllMutations :
         /\ given' = <<self, other>>
         /\ returned' = [kind |-> "Compared",
                         eq |-> MutationEq(self, other),
                         hash_self |-> MutationHash(self),
                         hash_other |-> MutationHash(other)]
    /\ UNCHANGED <<rule, dtree, env, outcome, pc, variant_calls, default_flags>>

\* comparisons of Mutations, one after the other
InitMutation == InitWith({G1})
SpecMutation == InitMutation /\ [][MutationCompare]_vars

\* the sequences of Mutations a MutationSet is constructed from
MutationLists == UNION {[1..n -> AllMutations] : n \in 0..MaxMutations}

\* MutationSet(wildtype=w, pos=p, variants=v) or
\* MutationSet(wildtype=w, pos=p, mutations=m)
NewMutationSet ==
    /\ returned.kind = "NotCalled"
    /\ \E w \in {NoWt} \cup Wildtypes, p \in {NoPos} \cup Positions :
         \/ \E v \in (SUBSET Variants) \ {{}} :
              /\ given' = <<w, p, v, <<>> >>
              /\ returned' = MutationSetInit(w, p, v, <<>>)
         \/ \E m \in MutationLists :
              /\ given' = <<w, p, {}, m>>
              /\ returned' = MutationSetInit(w, p, {}, m)
    /\ UNCHANGED <<rule, dtree, env, outcome, pc, variant_calls, default_flags>>

\* the construction of one MutationSet
InitMutationSet == InitWith({G1})
SpecMutationSet == InitMutationSet /\ [][NewMutationSet]_vars

\* the operands of an addition: scores, residues that name a wild type or
\* none, and flag maps with flat evidence lists
FlagKeys == {"c", "d"}
Evidence == {PyAtom("x"), PyAtom("y")}
EvidenceLists == UNION {[1..n -> Evidence] : n \in 0..MaxEvidence}
FlagMaps == UNION {[keys -> EvidenceLists] : keys \in SUBSET FlagKeys}
IntScores ==
    {IntScore(n, r, f) :
        n \in {NoScore, 0, 1},
        r \in {{}, {Mutation("Q", 1, "A")}, {Mutation("R", 1, "A")}},
        f \in FlagMaps}

\* self + other for two different Score objects
AddScores ==
    /\ returned.kind = "NotCalled"
    /\ \E self \in IntScores, other \in IntScores :
         /\ given' = <<self, other>>
         /\ returned' = IntScoreAdd(self, other)
    /\ UNCHANGED <<rule, dtree, env, outcome, pc, variant_calls, default_flags>>

\* one addition of two outcomes
InitAdd == InitWith({G1})
SpecAdd == InitAdd /\ [][AddScores]_vars

----------------------------------------------------------------------------
(* Vocabulary of the properties *)

\* the variant letters of a MutationSet
VariantsOf(ms) == {m.variant : m \in ms.mutations}
\* the (position, variant) calls of a set of Mutations
CallsOf(residues) == {MutationHash(m) : m \in residues}
\* the positions that have an entry in the environment
PositionsOf(env_) == {env_[i].pos : i \in 1..Len(env_)}
OnePerPosition(env_) ==
    \A i, j \in 1..Len(env_) : env_[i].pos = env_[j].pos => i = j
\* both wild types are given and they differ
WtMismatch(w1, w2) == w1 # NoWt /\ w2 # NoWt /\ w1 # w2

\* the residues (AsiMutations nodes) a rule refers to
RECURSIVE ResiduesOf(_)
ResiduesOf(node) ==
    IF node.kind = "AsiMutations" THEN {node}
    ELSE UNION {ResiduesOf(node.children[i]) : i \in 1..Len(node.children)}

\* the positions a rule refers to that have no entry in the environment
MissingPositions(node, env_) ==
    {r.mutations.pos : r \in ResiduesOf(node)} \ PositionsOf(env_)

\* the rule and the environment name no two different wild types for one
\* position
WtAgree(node, env_) ==
    LET named == {<<r.mutations.pos, r.mutations.wildtype>> : r \in ResiduesOf(node)}
                 \cup {<<env_[i].pos, env_[i].wildtype>> : i \in 1..Len(env_)}
    IN  \A x, y \in named : x[1] = y[1] => ~WtMismatch(x[2], y[2])

\* the MutationSets of the environment, whatever their order
EnvSet(env_) == {env_[i] : i \in 1..Len(env_)}
\* the outcomes of the children of the rule
ChildScores == Scores(dtree.children, env)
NoChildRaises == \A i \in 1..Len(dtree.children) : ~Raises(ChildScores[i])

\* the residue node matches the environment: a MutationSet at its position
\* shares a variant with it
Matches(node, env_) ==
    \E i \in 1..Len(env_) :
        /\ env_[i].pos = node.mutations.pos
        /\ VariantsOf(env_[i]) \cap VariantsOf(node.mutations) # {}

----------------------------------------------------------------------------
(* C1 *)

\* what C1 says of a residue node called on an environment with one
\* MutationSet per position; the wild type mismatch is an outcome of its own
\* when mismatch is TRUE, and is not told apart when it is FALSE
ResidueMatch(mismatch) ==
    (pc = "done" /\ dtree.kind = "AsiMutations" /\ OnePerPosition(env)) =>
        LET self == dtree.mutations
            at == {i \in 1..Len(env) : env[i].pos = self.pos}
        IN  IF at = {} THEN outcome = MissingPositionError(self.pos)
            ELSE LET found == env[CHOOSE i \in at : TRUE]
                     shared == VariantsOf(self) \cap VariantsOf(found)
                 IN  IF shared = {} THEN outcome = Score(PyFalse, {})
                     ELSE IF mismatch /\ WtMismatch(self.wildtype, found.wildtype)
                          THEN outcome = ValueError
                     ELSE /\ IsScore(outcome)
                          /\ outcome.score = PyTrue
                          /\ CallsOf(outcome.residues)
                                 = {<<self.pos, v>> : v \in shared}

----------------------------------------------------------------------------
(* C2 *)

----------------------------------------------------------------------------
(* C3 *)

----------------------------------------------------------------------------
(* C4 *)

\* the number of listed residues that match the environment
MatchCount(rest, env_) ==
    Cardinality({i \in 1..Len(rest) : Matches(rest[i], env_)})

\* the quantifier of a simple SELECT holds of the count
Quantified(operation, count) ==
    IF operation.op = "ATLEAST" THEN count >= operation.num
    ELSE count = operation.num

\* a simple SELECT has been called on an environment with every listed position
SelectCalled ==
    /\ pc = "done" /\ dtree.kind = "SelectFrom"
    /\ dtree.children[1].op \in {"ATLEAST", "EXACTLY"}
    /\ MissingPositions(dtree, env) = {}

\* what C4 says of the value of the SELECT
SelectValue ==
    LET rest == SubSeq(dtree.children, 2, Len(dtree.children))
    IN  /\ IsScore(outcome)
        /\ Truthy(outcome.score)
               <=> Quantified(dtree.children[1], MatchCount(rest, env))
        /\ dtree.children[1].op = "ATLEAST" =>
               \A more \in 1..2 :
                   LET higher == Call(SelectFrom(
                                          EqualityExpr("ATLEAST",
                                                       dtree.children[1].num + more),
                                          rest), env)
                   IN  IsScore(higher)
                       /\ (Truthy(higher.score) => Truthy(outcome.score))

----------------------------------------------------------------------------
(* C5 *)

Sample41L67N70d == {Sample(41, {"L"}), Sample(67, {"N"}), Sample(70, {"d"})}
SampleSixPositions ==
    Sample41L67N70d
        \cup {Sample(210, {"d"}), Sample(215, {"d"}), Sample(219, {"d"})}

----------------------------------------------------------------------------
(* C6 *)

AndCalled == pc = "done" /\ dtree.kind = "AndExpr" /\ NoChildRaises

\* what C6 says of the value of the conjunction
AndValue ==
    LET all == \A i \in 1..Len(ChildScores) : Truthy(ChildScores[i].score)
    IN  /\ IsScore(outcome)
        /\ Truthy(outcome.score) <=> all
        /\ all => CallsOf(outcome.residues)
                      = UNION {CallsOf(ChildScores[i].residues) :
                                  i \in 1..Len(ChildScores)}
        /\ ~all => outcome.residues = {}

----------------------------------------------------------------------------
(* C7 *)

\* A AND (B AND C) has been called
NestedAndCalled ==
    /\ pc = "done" /\ dtree.kind = "AndExpr" /\ Len(dtree.children) = 2
    /\ dtree.children[2].kind = "AndExpr"

\* the bracketings of the three operands of A AND (B AND C), in every order
Regroupings ==
    LET abc == <<dtree.children[1], dtree.children[2].children[1],
                 dtree.children[2].children[2]>>
        orders == {p \in [1..3 -> 1..3] : \A i, j \in 1..3 : p[i] = p[j] => i = j}
    IN  {AndExpr(<<abc[p[1]], AndExpr(<<abc[p[2]], abc[p[3]]>>)>>) : p \in orders}
        \cup {AndExpr(<<AndExpr(<<abc[p[1]], abc[p[2]]>>), abc[p[3]]>>) : p \in orders}

----------------------------------------------------------------------------
(* C8 *)

OrCalled == pc = "done" /\ dtree.kind = "OrExpr" /\ NoChildRaises

\* what C8 says of the value of the disjunction
OrValue ==
    /\ IsScore(outcome)
    /\ Truthy(outcome.score)
           <=> (Truthy(ChildScores[1].score) \/ Truthy(ChildScores[2].score))
    /\ CallsOf(outcome.residues)
           = CallsOf(ChildScores[1].residues) \cup CallsOf(ChildScores[2].residues)
    /\ Truthy(ChildScores[1].score) =>
           CallsOf(ChildScores[1].residues) \subseteq CallsOf(outcome.residues)

----------------------------------------------------------------------------
(* C9 *)

\* C9 as stated: a chain A OR B OR C compiles into binary OR nodes, and the
\* rule is true iff at least one of A, B, C matches the environment.
C9_AsStated ==
    (rule.kind = "OrExpr" /\ Len(rule.children) = 3) =>
        /\ dtree.kind = "OrExpr"
        /\ (pc = "done" /\ IsScore(outcome)) =>
               (Truthy(outcome.score)
                    <=> \E i \in 1..3 : Matches(rule.children[i], env))

----------------------------------------------------------------------------
(* C10 *)

\* C10: NOT r is true iff r evaluates to false and false iff r evaluates to
\* true, with the residues of r unchanged (and raises what r raises);
\* `SCORE FROM ( NOT 100G => 10, NOT 101SD => 20 )` scores 20 on {100G, 101d}
\* and 10 on {100S, 101S}.
C10_Negate ==
    pc = "done" =>
        /\ dtree.kind = "Negate" =>
               LET r == dtree.children[1]
                   child == Call(r, env)
               IN  IF Raises(child) THEN outcome = child
                   ELSE /\ IsScore(outcome)
                        /\ outcome.score \in {PyTrue, PyFalse}
                        /\ outcome.score = PyTrue <=> child.score = PyFalse
                        /\ outcome.score = PyFalse <=> child.score = PyTrue
                        /\ outcome.score = PyFalse <=> Matches(r, env)
                        /\ outcome.residues = child.residues
        /\ (rule = RuleScoreNegate
            /\ EnvSet(env) = {Sample(100, {"G"}), Sample(101, {"d"})}) =>
               DRMParserCall(outcome) = Score(PyInt(20), {})
        /\ (rule = RuleScoreNegate
            /\ EnvSet(env) = {Sample(100, {"S"}), Sample(101, {"S"})}) =>
               DRMParserCall(outcome) = Score(PyInt(10), {})

\* NOT r is false and holds the residue that r matched
C10_Witness ==
    /\ pc = "done" /\ dtree.kind = "Negate"
    /\ outcome = Score(PyFalse, {Mutation(NoWt, 101, "S")})

----------------------------------------------------------------------------
(* C11 *)

\* SCORE FROM has been called on an environment with every position its
\* items name
ScoreCondCalled ==
    pc = "done" /\ dtree.kind = "ScoreCond" /\ MissingPositions(dtree, env) = {}

\* the items of a list whose value is not zero
Participating(items) == {i \in 1..Len(items) : items[i].score.n # 0}

\* the sum and the maximum of the values of the items in part
RECURSIVE SumOver(_, _)
SumOver(items, part) ==
    IF part = {} THEN 0
    ELSE LET i == CHOOSE j \in part : TRUE
         IN  items[i].score.n + SumOver(items, part \ {i})
MaxOver(items, part) ==
    CHOOSE m \in {items[i].score.n : i \in part} :
        \A i \in part : items[i].score.n <= m

\* what C11 says of the value of a score list
ListValue(list) ==
    LET items == Scores(list.children, env)
        part == Participating(items)
        o == Call(list, env)
    IN  /\ IsScore(o)
        /\ IF part = {} THEN o.score = PyFalse
           ELSE o.score = PyInt(IF list.op = "MAX" THEN MaxOver(items, part)
                                ELSE SumOver(items, part))

SampleMax == {Sample(100, {"G"}), Sample(101, {"D"}), Sample(102, {"d"})}

\* the two MAX rules on {100G, 101D, 102d}
MaxExamples ==
    (pc = "done" /\ EnvSet(env) = SampleMax) =>
        /\ rule = RuleScoreMaxNeg =>
               DRMParserCall(outcome) = Score(PyInt(0 - 10), {})
        /\ rule = RuleScoreMax =>
               DRMParserCall(outcome) = Score(PyInt(20), {})

----------------------------------------------------------------------------
(* C12 *)

\* a score list none of whose items raises
ItemsReturn(list) ==
    \A i \in 1..Len(list.children) : ~Raises(Call(list.children[i], env))

\* what C12 says of the residues of a score list
ListResidues(list) ==
    LET items == Scores(list.children, env)
        o == Call(list, env)
    IN  /\ IsScore(o)
        /\ CallsOf(o.residues)
               = UNION {CallsOf(items[i].residues) : i \in 1..Len(items)}
        /\ o.residues \subseteq UNION {items[i].residues : i \in 1..Len(items)}
        /\ \A i \in 1..Len(items) :
               LET cond == Call(list.children[i].children[1], env)
               IN  IF Truthy(cond.score)
                   THEN CallsOf(cond.residues) \subseteq CallsOf(o.residues)
                   ELSE items[i].residues = {}

\* `SCORE FROM ( 100G => 10, 101D => 20 )` on {S100G, R101d} reports S100G
ScoreResiduesExample ==
    (pc = "done" /\ rule = RuleScoreFrom
     /\ EnvSet(env) = {MutationSet("S", 100, {"G"}),
                       MutationSet("R", 101, {"d"})}) =>
        outcome.residues = {Mutation("S", 100, "G")}

----------------------------------------------------------------------------
(* C13 *)

\* Python's ==, on bools and ints
PyEq(x, y) == x.n = y.n

\* SCORE FROM has been called and none of its lists raises
ListsReturn ==
    /\ pc = "done" /\ dtree.kind = "ScoreCond"
    /\ \A k \in 1..Len(dtree.children) : ~Raises(Call(dtree.children[k], env))

\* what C13 says of the outcome of SCORE FROM
CondValue ==
    LET lists == Scores(dtree.children, env)
        total == SumOver(lists, 1..Len(lists))
        result == DRMParserCall(outcome).score
    IN  /\ IsScore(outcome)
        /\ outcome.score = PyAdd(PyFalse, PyInt(total))
        /\ CallsOf(outcome.residues)
               = UNION {CallsOf(lists[k].residues) : k \in 1..Len(lists)}
        /\ (\A k \in 1..Len(lists) : lists[k].score = PyFalse) =>
               PyEq(result, PyFalse) /\ PyEq(result, PyInt(0))
        /\ total = 0 => result = PyInt(0)

----------------------------------------------------------------------------
(* C14 *)

\* the items of the lists of SCORE FROM
ScoreItemsOf(node) ==
    UNION {{node.children[k].children[i] : i \in 1..Len(node.children[k].children)} :
              k \in 1..Len(node.children)}

\* the d of `cond => d`
Delta(item) == IF item.op = "-" THEN 0 - item.num ELSE item.num

\* C14: a score item `cond => d` yields score 0 with no residues when cond
\* is false, score d (-n for `=> -n`) with exactly the residues of cond when
\* cond is true, and None only when cond yields None, never 0 in that case;
\* `SCORE FROM ( 100G => 10, 101D => 20 )` on {100G, 101d} scores 10.
C14_ScoreItem ==
    /\ (pc = "done" /\ dtree.kind = "ScoreCond") =>
           \A item \in ScoreItemsOf(dtree) :
               LET cond == Call(item.children[1], env)
                   o == Call(item, env)
               IN  /\ (IsScore(cond) /\ ~Truthy(cond.score)) =>
                          o = Score(PyInt(0), {})
                   /\ (IsScore(cond) /\ Truthy(cond.score)) =>
                          o = Score(PyInt(Delta(item)), cond.residues)
                   /\ (item.children[1].kind = "AsiMutations" /\ IsScore(o)) =>
                          o.score.n = IF Matches(item.children[1], env)
                                      THEN Delta(item) ELSE 0
                   /\ o = None <=> cond = None
                   /\ Raises(o) <=> Raises(cond)
    /\ (pc = "done" /\ rule = RuleScoreFrom
        /\ EnvSet(env) = {Sample(100, {"G"}), Sample(101, {"d"})}) =>
           DRMParserCall(outcome) = Score(PyInt(10), {})

\* a matched item `cond => -n` and an item whose condition is false although
\* it has residues
C14_Witness ==
    /\ pc = "done" /\ dtree.kind = "ScoreCond"
    /\ \E item \in ScoreItemsOf(dtree) :
           /\ item.op = "-"
           /\ Call(item, env).score.n < 0
           /\ Call(item, env).residues # {}
    /\ \E item \in ScoreItemsOf(dtree) :
           /\ Call(item.children[1], env).residues # {}
           /\ Call(item, env) = Score(PyInt(0), {})

----------------------------------------------------------------------------
(* C15 *)

\* C15 as stated: on an environment that contains every listed position,
\* SELECT NOTMORETHAN n FROM (r1..rk) is true iff the number of listed
\* residues that match is <= n, and false otherwise.
C15_AsStated ==
    (/\ pc = "done" /\ dtree.kind = "SelectFrom"
     /\ dtree.children[1].kind = "EqualityExpr"
     /\ dtree.children[1].op = "NOTMORETHAN"
     /\ MissingPositions(dtree, env) = {}) =>
        /\ IsScore(outcome)
        /\ Truthy(outcome.score)
               <=> MatchCount(SubSeq(dtree.children, 2, Len(dtree.children)), env)
                       <= dtree.children[1].num

----------------------------------------------------------------------------
(* C16 *)

\* the AND/OR combination of the quantifiers' predicates holds of the count
RECURSIVE Combined(_, _)
Combined(quantifier, count) ==
    IF quantifier.kind = "EqualityExpr"
    THEN CASE quantifier.op = "ATLEAST" -> count >= quantifier.num
           [] quantifier.op = "EXACTLY" -> count = quantifier.num
           [] quantifier.op = "NOTMORETHAN" -> count <= quantifier.num
    ELSE IF quantifier.kind = "AndExpr"
    THEN \A i \in 1..Len(quantifier.children) :
             Combined(quantifier.children[i], count)
    ELSE \E i \in 1..Len(quantifier.children) :
             Combined(quantifier.children[i], count)

\* C16 as stated: a SELECT with a compound quantifier, such as
\* SELECT ATLEAST 2 AND NOTMORETHAN 2 FROM (...), compiles and, called on an
\* environment with every listed position, is true iff the number of listed
\* residues that match satisfies the AND/OR combination of the quantifiers.
C16_AsStated ==
    (rule.kind = "SelectFrom" /\ rule.children[1].kind \in {"AndExpr", "OrExpr"}) =>
        /\ dtree = rule
        /\ (pc = "done" /\ MissingPositions(dtree, env) = {}) =>
               /\ IsScore(outcome)
               /\ Truthy(outcome.score)
                      <=> Combined(dtree.children[1],
                                   MatchCount(SubSeq(dtree.children, 2,
                                                     Len(dtree.children)), env))

----------------------------------------------------------------------------
(* C17 *)

\* C17 as stated: when the rule text as a whole does not match the grammar,
\* constructing the rule fails with a parse error; no rule is built from a
\* statement at the start of the text while the rest of it is ignored.
C17_AsStated ==
    (rule.kind = "Text" /\ (Len(rule.children) = 0 \/ rule.op # "")) =>
        dtree = ParseException /\ outcome = NotCalled

----------------------------------------------------------------------------
(* C18 *)

\* the MutationSets that VariantCalls('A1I C2C H3R E4E') holds
CallsA1I_C2C_H3R_E4E ==
    {MutationSet("A", 1, {"I"}), MutationSet("C", 2, {"C"}),
     MutationSet("H", 3, {"R"}), MutationSet("E", 4, {"E"})}

\* C18 as stated: a VariantCalls built from an aligned reference and sample
\* holds exactly one MutationSet for every position 1..len(reference), also
\* where the sample equals the reference (ACHE and ICRE give A1I C2C H3R E4E),
\* so a rule on positions of the reference never finds a position missing.
C18_AsStated ==
    variant_calls.kind = "VariantCalls" =>
        /\ \A p \in 1..Len(variant_calls.reference) :
               Cardinality({ms \in variant_calls.mutation_sets : ms.pos = p}) = 1
        /\ \A ms \in variant_calls.mutation_sets :
               ms.pos \in 1..Len(variant_calls.reference)
        /\ (variant_calls.reference = ReferenceACHE
                /\ \A ms \in variant_calls.mutation_sets :
                       Cardinality(ms.mutations) = 1)
               => variant_calls.mutation_sets = CallsA1I_C2C_H3R_E4E
        /\ (pc = "done" /\ EnvSet(env) = variant_calls.mutation_sets
                /\ \A r \in ResiduesOf(dtree) :
                       r.mutations.pos \in 1..Len(variant_calls.reference))
               => outcome.kind # "MissingPositionError"

----------------------------------------------------------------------------
(* C20 *)

\* C20 as stated: Mutation, MutationSet and VariantCalls are immutable after
\* construction: no step, an assignment to pos, wildtype or reference
\* included, changes an existing object's position, wild type, variants or
\* reference.
C20_AsStated ==
    [][/\ \A i \in 1..Len(env) : i <= Len(env') => env'[i] = env[i]
       /\ (variant_calls.kind = "VariantCalls"
              /\ variant_calls'.kind = "VariantCalls")
             => variant_calls' = variant_calls]_vars

----------------------------------------------------------------------------
(* C19 *)

\* C19 as stated: evaluation leaves no state behind: whatever rules were
\* evaluated before, on whatever environments, the outcome of evaluating a
\* rule on an environment (score, residues and flags) is the outcome of
\* evaluating it first on a fresh system; no flag of an earlier evaluation
\* appears in it.
C19_AsStated ==
    pc = "done" => outcome = Returned(HcvrAsiScoreCondCall(dtree, env, {}))

----------------------------------------------------------------------------
(* C28 *)

\* C28 as stated: the evaluation of a compiled ASI2 rule on an environment
\* of MutationSets either returns a value or raises MissingPositionError; no
\* other error escapes, the ValueError of a wild type mismatch (rule Q80K,
\* environment R80K) included.
C28_AsStated ==
    pc = "done" => outcome.kind \in {"Score", "None", "MissingPositionError"}

----------------------------------------------------------------------------
(* C29 *)

\* a boolean rule has been called and has returned false
FalseOutcome ==
    /\ pc = "done"
    /\ dtree.kind \in {"AsiMutations", "Negate", "AndExpr", "OrExpr", "SelectFrom"}
    /\ IsScore(outcome) /\ ~Truthy(outcome.score)

\* the calls in the residues of the conditions the node is built from (its
\* children; the listed conditions of a SELECT)
ConditionResidues ==
    LET conditions == IF dtree.kind = "SelectFrom"
                      THEN SubSeq(dtree.children, 2, Len(dtree.children))
                      ELSE dtree.children
    IN  UNION {CallsOf(Call(conditions[i], env).residues) :
                  i \in 1..Len(conditions)}

\* C29 as stated: every boolean outcome of ASI2 that is false carries an
\* empty residue set, whatever the node kind (residue match, NOT, AND, OR,
\* SELECT) and the environment.
C29_AsStated == FalseOutcome => outcome.residues = {}

\* C29 (amended): a false outcome of a residue match or of an AND carries
\* an empty residue set; a false NOT carries the residues of the condition
\* it negates, which holds, and a false OR or SELECT carries the union of the
\* residues of its conditions, which is not empty when a negated condition
\* is false or when listed residues match although the quantifier fails.
C29_FalseResidues ==
    FalseOutcome =>
        IF dtree.kind \in {"AsiMutations", "AndExpr"}
        THEN outcome.residues = {}
        ELSE /\ CallsOf(outcome.residues) = ConditionResidues
             /\ (dtree.kind = "Negate" /\ dtree.children[1].kind = "AsiMutations")
                    => outcome.residues # {}

\* a SELECT EXACTLY that is false because too many listed residues match
C29_Witness ==
    /\ FalseOutcome
    /\ dtree.kind = "SelectFrom" /\ dtree.children[1].op = "EXACTLY"
    /\ Cardinality(outcome.residues) > dtree.children[1].num

----------------------------------------------------------------------------
(* C30 *)

\* C30: the evaluation of an ASI2 rule does not depend on the order in which
\* the environment is iterated: on an environment with at most one
\* MutationSet per position, every ordering of its MutationSets gives the
\* outcome the call gave - the same value and residues, or the same error,
\* a MissingPositionError naming the same position.
C30_OrderIndependent ==
    (pc = "done" /\ OnePerPosition(env)) =>
        \A ordering \in Orderings(EnvSet(env)) : Call(dtree, ordering) = outcome

\* a residue matched by the second of two MutationSets
C30_Witness ==
    /\ pc = "done" /\ OnePerPosition(env) /\ Len(env) = 2
    /\ dtree.kind = "AsiMutations" /\ env[2].pos = dtree.mutations.pos
    /\ IsScore(outcome) /\ Truthy(outcome.score)

----------------------------------------------------------------------------
(* C21 *)

\* C21: two Mutations of one position whose wild types are both given and
\* differ cannot be compared: == raises ValueError instead of answering; any
\* other two Mutations are equal iff their positions and their variants are
\* equal; the hash is that of (position, variant), so two Mutations of equal
\* position and variant, and hence any two that compare equal, have equal
\* hashes.
C21_EqHash ==
    returned.kind = "Compared" =>
        LET self == given[1]
            other == given[2]
            same == self.pos = other.pos /\ self.variant = other.variant
        IN  /\ returned.eq = "ValueError"
                   <=> (self.pos = other.pos
                           /\ WtMismatch(self.wildtype, other.wildtype))
            /\ returned.eq # "ValueError" => (returned.eq = "True" <=> same)
            /\ same => returned.hash_self = returned.hash_other
            /\ returned.eq = "True" => returned.hash_self = returned.hash_other

\* Q1A and R1A: equal position and variant, equal hashes, and == raises
C21_Witness ==
    /\ returned.kind = "Compared"
    /\ returned.eq = "ValueError"
    /\ returned.hash_self = returned.hash_other
    /\ given[1].wildtype = "Q" /\ given[2].wildtype = "R"

----------------------------------------------------------------------------
(* C22 *)

\* C22 as stated: every MutationSet that is constructed has all its members
\* at its pos and every given wild type of a member equal to its own; the
\* construction from Mutations of more than one position (the pos argument
\* counts), of more than one wild type (the wildtype argument counts), or
\* from no Mutations with no wild type or with no position, raises
\* ValueError.
C22_AsStated ==
    returned.kind \in {"MutationSet", "ValueError", "TypeError"} =>
        LET wildtype == given[1]
            pos == given[2]
            mutations == {given[4][i] : i \in 1..Len(given[4])}
            positions == {m.pos : m \in mutations} \cup ({pos} \ {NoPos})
            wildtypes == ({m.wildtype : m \in mutations} \cup {wildtype})
                             \ {NoWt}
        IN  /\ returned.kind = "MutationSet" =>
                   \A m \in returned.value.mutations :
                       /\ m.pos = returned.value.pos
                       /\ m.wildtype # NoWt =>
                              m.wildtype = returned.value.wildtype
            /\ (given[3] = {} /\ Cardinality(positions) > 1) =>
                   returned.kind = "ValueError"
            /\ (given[3] = {} /\ Cardinality(wildtypes) > 1) =>
                   returned.kind = "ValueError"
            /\ (given[3] = {} /\ mutations = {}
                    /\ (wildtype = NoWt \/ pos = NoPos)) =>
                   returned.kind = "ValueError"

----------------------------------------------------------------------------
(* C26 *)

\* C26 as stated: an HCVR rule SELECT ATLEAST k FROM (r1..rn) yields a value
\* on every environment; with at least k of the listed residues matching
\* the value is true and its residues are those of the matching residues;
\* with fewer the public result is False.
C26_AsStated ==
    (pc = "done" /\ dtree.children[1].op = "ATLEAST") =>
        LET rest == SubSeq(dtree.children, 2, Len(dtree.children))
            matching == {i \in 1..Len(rest) : Matches(rest[i], env)}
        IN  /\ ~Raises(outcome)
            /\ Cardinality(matching) >= dtree.children[1].num =>
                   /\ IsScore(outcome)
                   /\ outcome.score = PyTrue
                   /\ outcome.residues =
                          UNION {rest[i].mutations.mutations : i \in matching}
            /\ Cardinality(matching) < dtree.children[1].num =>
                   DRMParserCall(outcome) = Score(PyFalse, {})

----------------------------------------------------------------------------
(* C27 *)

\* C27 as stated: the flag map of a sum maps a flag of both operands to the
\* evidence list of the first followed by the elements of the list of the
\* second, and a flag of one operand to that operand's list.
C27_AsStated ==
    returned.kind = "IntScore" =>
        LET fst == given[1].flags
            snd == given[2].flags
        IN  /\ DOMAIN returned.flags = DOMAIN fst \cup DOMAIN snd
            /\ \A k \in DOMAIN returned.flags :
                   returned.flags[k] =
                       IF k \in DOMAIN fst /\ k \in DOMAIN snd
                       THEN fst[k] \o snd[k]
                       ELSE IF k \in DOMAIN fst THEN fst[k] ELSE snd[k]

----------------------------------------------------------------------------
(* Vocabulary of the HCVR2 properties: what a rule text says *)

\* the condition holds of the environment: a residue matches, TRUE holds,
\* FALSE does not, AND and OR are the logical connectives
RECURSIVE Holds(_, _)
Holds(condition, env_) ==
    IF condition.kind = "residue" THEN Matches(condition, env_)
    ELSE IF condition.kind = "TRUE" THEN TRUE
    ELSE IF condition.kind = "FALSE" THEN FALSE
    ELSE IF condition.op = "AND"
    THEN Holds(condition.children[1], env_) /\ Holds(condition.children[2], env_)
    ELSE Holds(condition.children[1], env_) \/ Holds(condition.children[2], env_)

\* the sum of the fractions of a sequence
RECURSIVE Total(_)
Total(values) ==
    IF values = <<>> THEN Zero ELSE RatAdd(Head(values), Total(Tail(values)))

\* the value the text stands for: a float is its value, an item is worth
\* its score when its condition holds and 0 when not, a list is the sum,
\* the greatest, the least or the mean of what its items are worth
RECURSIVE Worth(_, _)
Worth(text, env_) ==
    IF text.kind = "float" THEN text.num
    ELSE IF text.kind = "item"
    THEN IF Holds(text.children[1], env_) THEN Worth(text.children[2], env_)
         ELSE Zero
    ELSE LET values == [i \in 1..Len(text.children) |->
                           Worth(text.children[i], env_)]
             sum == Total(values)
         IN  IF text.op = "MAX"
             THEN CHOOSE v \in {values[i] : i \in 1..Len(values)} :
                      \A i \in 1..Len(values) : ~RatLess(v, values[i])
             ELSE IF text.op = "MIN"
             THEN CHOOSE v \in {values[i] : i \in 1..Len(values)} :
                      \A i \in 1..Len(values) : ~RatLess(values[i], v)
             ELSE IF text.op = "MEAN" THEN Rat(sum[1], sum[2] * Len(values))
             ELSE sum

\* the conditions of the items of a list
ItemConditions(text) ==
    {text.children[i].children[1] :
        i \in {j \in 1..Len(text.children) : text.children[j].kind = "item"}}

----------------------------------------------------------------------------
(* C23 *)

\* C23 as stated: in a list whose items are guarded by residues and by the
\* constants, an item guarded by TRUE always contributes its score and one
\* guarded by FALSE never does, so the list evaluates to what its text is
\* worth.
C23_AsStated ==
    (/\ pc = "done"
     /\ ItemConditions(rule) # {}
     /\ \A c \in ItemConditions(rule) : c.kind \in {"TRUE", "FALSE", "residue"}
     /\ \E c \in ItemConditions(rule) : c.kind \in {"TRUE", "FALSE"}
     /\ outcome.raised = "") =>
        outcome.val = Worth(rule, env)

----------------------------------------------------------------------------
(* C24 *)

\* C24 as stated: a list of the one item (A OR B) => s evaluates to s when
\* A or B matches the environment and to 0 when neither does.
C24_AsStated ==
    (/\ pc = "done"
     /\ rule.op = ""
     /\ Len(rule.children) = 1
     /\ rule.children[1].kind = "item"
     /\ rule.children[1].children[1].op = "OR"
     /\ rule.children[1].children[2].kind = "float") =>
        LET A == rule.children[1].children[1].children[1]
            B == rule.children[1].children[1].children[2]
            s == rule.children[1].children[2].num
        IN  outcome = Hcvr2Float(IF Matches(A, env) \/ Matches(B, env)
                                 THEN s ELSE Zero)

----------------------------------------------------------------------------
(* C25 *)

\* C25 as stated: MEAN (e1, ..., en), when it evaluates to a value, is the
\* sum of what the n items are worth divided by n, an item whose condition
\* does not hold counting as 0 and an item c => ( ... ) counting as its
\* inner list when c holds.
C25_AsStated ==
    (pc = "done" /\ rule.op = "MEAN" /\ outcome.raised = "") =>
        LET sum == Total([i \in 1..Len(rule.children) |->
                             Worth(rule.children[i], env)])
        IN  outcome.val = Rat(sum[1], sum[2] * Len(rule.children))

====
